---------------------------- MODULE Spec2Model ----------------------------
(***************************************************************************)
(* Model of the Hack VM translator (src/main.go, first revision, lines     *)
(* 1-1176) together with the 16-bit target machine its output runs on.     *)
(*                                                                         *)
(* The translator part keeps the source's functions as operators that      *)
(* return the very assembly lines the Go code builds (a block is kept as   *)
(* the list of lines that strings.Join glues with "\n").  The machine part *)
(* assembles such a line list (labels, predefined symbols, variables) and  *)
(* executes it one instruction per step, with 16-bit wrap-around words.    *)
(***************************************************************************)
EXTENDS Integers, Sequences, FiniteSets, TLC

VARIABLES
    \* ---- translator state (package-level variables of src/main.go) ----
    funcStack,        \* Stack{current, returnCounter}
    eqCount,          \* var eqCount
    gtCount,          \* var gtCount
    ltCount,          \* var ltCount
    currentFile,      \* var currentFile
    pathToTranslate,  \* var pathToTranslate
    shouldBootstrap,  \* var shouldBootstrap
    shouldSetStackPointer, \* var shouldSetStackPointer
    shouldEndWithLoop,     \* var shouldEndWithLoop
    pending,          \* the .vm files not yet translated (head: the open one)
    lineNo,           \* lines of the open file read so far
    instructions,     \* blocks emitted so far, each with the command it is from
    status,           \* where main() is: "start", "files", "parsing", "saved",
                      \* "fatal" (log.Fatal), "panic" (a run-time panic), then
                      \* "running" (the machine)
    \* ---- target machine state ----
    rom,              \* assembled program: instruction lines, labels removed
    symtab,           \* symbol -> address, as the assembler resolved it
    pc,               \* program counter (0-based index into rom)
    A,                \* A register
    D,                \* D register
    RAM,              \* data memory, sparse: address -> non-zero word
    scen              \* the inputs of the run under way (fixed during a run)

tvars == <<funcStack, eqCount, gtCount, ltCount, currentFile, pathToTranslate,
           shouldBootstrap, shouldSetStackPointer, shouldEndWithLoop,
           pending, lineNo, instructions, status>>
mvars == <<rom, symtab, pc, A, D, RAM, scen>>
vars == <<funcStack, eqCount, gtCount, ltCount, currentFile, pathToTranslate,
          shouldBootstrap, shouldSetStackPointer, shouldEndWithLoop,
          pending, lineNo, instructions, status,
          rom, symtab, pc, A, D, RAM, scen>>

-----------------------------------------------------------------------------
(* 16-bit words *)

Modulus == 2^16

W(x) == x % Modulus

Signed(x) == IF x >= 2^15 THEN x - Modulus ELSE x

RECURSIVE BitAnd(_, _)
BitAnd(x, y) ==
    IF x = 0 \/ y = 0 THEN 0
    ELSE (x % 2) * (y % 2) + 2 * BitAnd(x \div 2, y \div 2)

BitNot(x) == Modulus - 1 - x

BitOr(x, y) == x + y - BitAnd(x, y)

-----------------------------------------------------------------------------
(* strings *)

RECURSIVE IndexOf(_, _, _)
\* position (1-based) of the first ch in s at or after i, 0 if none
IndexOf(s, ch, i) ==
    IF i > Len(s) THEN 0
    ELSE IF SubSeq(s, i, i) = ch THEN i
    ELSE IndexOf(s, ch, i + 1)

RECURSIVE LastIndexOf(_, _, _)
\* position of the last ch in s at or before i, 0 if none
LastIndexOf(s, ch, i) ==
    IF i < 1 THEN 0
    ELSE IF SubSeq(s, i, i) = ch THEN i
    ELSE LastIndexOf(s, ch, i - 1)

DigitValue ==
    [c \in {"0", "1", "2", "3", "4", "5", "6", "7", "8", "9"} |->
        CASE c = "0" -> 0 [] c = "1" -> 1 [] c = "2" -> 2 [] c = "3" -> 3
          [] c = "4" -> 4 [] c = "5" -> 5 [] c = "6" -> 6 [] c = "7" -> 7
          [] c = "8" -> 8 [] c = "9" -> 9]

RECURSIVE AllDigits(_)
AllDigits(s) ==
    IF Len(s) = 0 THEN TRUE
    ELSE Head(s) \in DOMAIN DigitValue /\ AllDigits(Tail(s))

RECURSIVE DigitsValue(_, _)
DigitsValue(s, acc) ==
    IF Len(s) = 0 THEN acc
    ELSE DigitsValue(Tail(s), 10 * acc + DigitValue[Head(s)])

\* strconv.Atoi: an optional sign, then one or more decimal digits
Atoi(s) ==
    LET signed == Len(s) > 0 /\ Head(s) \in {"+", "-"}
        digits == IF signed THEN Tail(s) ELSE s
    IN  IF Len(digits) = 0 \/ ~AllDigits(digits)
        THEN [ok |-> FALSE, val |-> 0]
        ELSE [ok |-> TRUE,
              val |-> IF signed /\ Head(s) = "-"
                      THEN 0 - DigitsValue(digits, 0)
                      ELSE DigitsValue(digits, 0)]

\* strconv.Itoa and fmt's %d
Itoa(n) == ToString(n)

RECURSIVE StripSlashes(_)
StripSlashes(s) ==
    IF Len(s) > 0 /\ SubSeq(s, Len(s), Len(s)) = "/"
    THEN StripSlashes(SubSeq(s, 1, Len(s) - 1))
    ELSE s

\* path.Base / filepath.Base
Base(p) ==
    IF Len(p) = 0 THEN "."
    ELSE LET q == StripSlashes(p)
             i == LastIndexOf(q, "/", Len(q))
         IN  IF Len(q) = 0 THEN "/" ELSE SubSeq(q, i + 1, Len(q))

-----------------------------------------------------------------------------
(* the translator: src/main.go *)

locRegister == "@R13"

valueRegister == "@R14"

\* strings.Join(lines, "\n") + "\n", kept as the list of "\n"-terminated
\* lines of the block: no line at all gives the single empty line "\n"
JoinNL(lines) == IF lines = <<>> THEN <<"">> ELSE lines

getFolderName == Base(pathToTranslate)

ReturnRoutineLclOffBy ==
    <<"(RETURN)",
      "@5", "D=A", "@LCL", "A=M-D", "D=M", locRegister, "M=D",
      "@SP", "M=M-1", "A=M", "D=M", "@ARG", "A=M", "M=D",
      "@ARG", "D=M+1", "@SP", "M=D",
      "@LCL", "A=M-1", "D=M", "@THAT", "M=D",
      "@LCL", "D=M", "@2", "D=D-A", "A=D", "D=M", "@THIS", "M=D",
      "@LCL", "D=M", "@3", "D=D-A", "A=D", "D=M", "@ARG", "M=D",
      "@LCL", "D=M", "@3", "D=D-A", "A=D", "D=M", "@LCL", "M=D",
      locRegister, "A=M", "0;JMP">>

ReturnRoutineReadsAddressLate ==
    <<"(RETURN)",
      "@SP", "M=M-1", "A=M", "D=M", "@ARG", "A=M", "M=D",
      "@5", "D=A", "@LCL", "A=M-D", "D=M", locRegister, "M=D",
      "@ARG", "D=M+1", "@SP", "M=D",
      "@LCL", "A=M-1", "D=M", "@THAT", "M=D",
      "@LCL", "D=M", "@2", "D=D-A", "A=D", "D=M", "@THIS", "M=D",
      "@LCL", "D=M", "@3", "D=D-A", "A=D", "D=M", "@ARG", "M=D",
      "@LCL", "D=M", "@4", "D=D-A", "A=D", "D=M", "@LCL", "M=D",
      locRegister, "A=M", "0;JMP">>

createReturnRoutine ==
    <<"(RETURN)",
      \* Put the return address in the location register
      "@5", "D=A", "@LCL", "A=M-D", "D=M",
      locRegister, "M=D",
      \* Take the top of the working stack and put it at @ARG
      "@SP", "M=M-1", "A=M", "D=M", "@ARG", "A=M", "M=D",
      \* Move the stack pointer
      "@ARG", "D=M+1", "@SP", "M=D",
      \* Restore THAT
      "@LCL", "A=M-1", "D=M", "@THAT", "M=D",
      \* Restore THIS
      "@LCL", "D=M", "@2", "D=D-A", "A=D", "D=M", "@THIS", "M=D",
      \* Restore ARG
      "@LCL", "D=M", "@3", "D=D-A", "A=D", "D=M", "@ARG", "M=D",
      \* Restore LCL
      "@LCL", "D=M", "@4", "D=D-A", "A=D", "D=M", "@LCL", "M=D",
      \* Jump to the return address
      locRegister, "A=M", "0;JMP">>

CallRoutineArgOffBy ==
    <<"(CALL)",
      "@SP", "A=M", "M=D", "@SP", "M=M+1",
      "@LCL", "D=M", "@SP", "A=M", "M=D", "@SP", "M=M+1",
      "@ARG", "D=M", "@SP", "A=M", "M=D", "@SP", "M=M+1",
      "@THIS", "D=M", "@SP", "A=M", "M=D", "@SP", "M=M+1",
      "@THAT", "D=M", "@SP", "A=M", "M=D", "@SP", "M=M+1",
      "@SP", "D=M", valueRegister, "D=D-M", "@4", "D=D-A", "@ARG", "M=D",
      "@SP", "D=M", "@LCL", "M=D",
      locRegister, "A=M", "0;JMP">>

CallRoutineSavesArgFirst ==
    <<"(CALL)",
      "@SP", "A=M", "M=D", "@SP", "M=M+1",
      "@ARG", "D=M", "@SP", "A=M", "M=D", "@SP", "M=M+1",
      "@LCL", "D=M", "@SP", "A=M", "M=D", "@SP", "M=M+1",
      "@THIS", "D=M", "@SP", "A=M", "M=D", "@SP", "M=M+1",
      "@THAT", "D=M", "@SP", "A=M", "M=D", "@SP", "M=M+1",
      "@SP", "D=M", valueRegister, "D=D-M", "@5", "D=D-A", "@ARG", "M=D",
      "@SP", "D=M", "@LCL", "M=D",
      locRegister, "A=M", "0;JMP">>

createCallRoutine ==
    <<"(CALL)",
      "@SP", "A=M", "M=D", "@SP", "M=M+1",
      \* Push LCL onto the stack
      "@LCL", "D=M", "@SP", "A=M", "M=D", "@SP", "M=M+1",
      \* Push ARG onto the stack
      "@ARG", "D=M", "@SP", "A=M", "M=D", "@SP", "M=M+1",
      \* Push THIS onto the stack
      "@THIS", "D=M", "@SP", "A=M", "M=D", "@SP", "M=M+1",
      \* Push THAT onto the stack
      "@THAT", "D=M", "@SP", "A=M", "M=D", "@SP", "M=M+1",
      \* Set new ARG (numArgs is the value of the valueRegister)
      "@SP", "D=M", valueRegister, "D=D-M", "@5", "D=D-A", "@ARG", "M=D",
      \* Set up new LCL
      "@SP", "D=M", "@LCL", "M=D",
      \* Get the function from the locRegister and jump to it
      locRegister, "A=M", "0;JMP">>

createLtRoutine ==
    <<"(LT)", "@R15", "M=D",
      "@SP", "AM=M-1", "D=M", "@SP", "AM=M-1", "D=M-D", "M=0",
      "@END_LT", "D;JGE",
      "@SP", "A=M", "M=-1",
      "(END_LT)",
      "@SP", "M=M+1",
      "@R15", "A=M", "0;JMP">>

createGtRoutine ==
    <<"(GT)", "@R15", "M=D",
      "@SP", "AM=M-1", "D=M", "@SP", "AM=M-1", "D=M-D", "M=0",
      "@END_GT", "D;JLE",
      "@SP", "A=M", "M=-1",
      "(END_GT)",
      "@SP", "M=M+1",
      "@R15", "A=M", "0;JMP">>

EqRoutineKeepsDifference ==
    <<"(EQ)", "@R15", "M=D",
      "@SP", "AM=M-1", "D=M", "@SP", "AM=M-1", "D=M-D", "M=D",
      "@END_EQ", "D;JNE",
      "@SP", "A=M", "M=-1",
      "(END_EQ)",
      "@SP", "M=M+1",
      "@R15", "A=M", "0;JMP">>

createEqRoutine ==
    <<"(EQ)", "@R15", "M=D",
      "@SP", "AM=M-1", "D=M", "@SP", "AM=M-1", "D=M-D", "M=0",
      "@END_EQ", "D;JNE",
      "@SP", "A=M", "M=-1",
      "(END_EQ)",
      "@SP", "M=M+1",
      "@R15", "A=M", "0;JMP">>

\* One element of the instructions slice: the text of a block and, for
\* stating properties, the file and the command line it is the translation
\* of (none for the blocks the driver adds itself).
Block(text) == [file |-> "", cmd |-> <<>>, text |-> text]

FunctionsAppended(instrs) ==
    instrs \o <<Block(createReturnRoutine), Block(createCallRoutine),
                Block(createLtRoutine), Block(createGtRoutine),
                Block(createEqRoutine)>>

prependFunctions(instrs) ==
    <<Block(createReturnRoutine), Block(createCallRoutine), Block(createLtRoutine),
      Block(createGtRoutine), Block(createEqRoutine)>> \o instrs

StartBeforeStackPointer(instrs) ==
    LET setStackPointer == <<"@256", "D=A", "@SP", "M=D">>
        start == <<"@START", "0;JMP">>
    IN  IF shouldSetStackPointer
        THEN <<Block(start), Block(setStackPointer)>> \o instrs
        ELSE <<Block(start)>> \o instrs

prependStartInstructions(instrs) ==
    LET setStackPointer == <<"@256", "D=A", "@SP", "M=D">>
        start == <<"@START", "0;JMP">>
    IN  IF shouldSetStackPointer
        THEN <<Block(setStackPointer), Block(start)>> \o instrs
        ELSE <<Block(start)>> \o instrs

\* the lines of handlePush's switch, before the final Join
pushLines(segment, index) ==
    CASE segment = "constant" ->
            <<"@" \o Itoa(index), "D=A", "@SP", "AM=M+1", "A=A-1", "M=D">>
      [] segment = "argument" ->
            IF index = 0
            THEN <<"@ARG", "A=M", "D=M", "@SP", "AM=M+1", "A=A-1", "M=D">>
            ELSE <<"@" \o Itoa(index), "D=A", "@ARG", "A=M", "D=D+A", "A=D", "D=M",
                 "@SP", "AM=M+1", "A=A-1", "M=D">>
      [] segment = "local" ->
            IF index = 0
            THEN <<"@LCL", "A=M", "D=M", "@SP", "AM=M+1", "A=A-1", "M=D">>
            ELSE <<"@" \o Itoa(index), "D=A", "@LCL", "A=M", "D=D+A", "A=D", "D=M",
                 "@SP", "AM=M+1", "A=A-1", "M=D">>
      [] segment = "static" ->
            <<"@" \o currentFile \o "." \o Itoa(index), "D=M",
              "@SP", "AM=M+1", "A=A-1", "M=D">>
      [] segment = "this" ->
            IF index = 0
            THEN <<"@THIS", "A=M", "D=M", "@SP", "AM=M+1", "A=A-1", "M=D">>
            ELSE <<"@" \o Itoa(index), "D=A", "@THIS", "A=D+M", "D=M",
                 "@SP", "AM=M+1", "A=A-1", "M=D">>
      [] segment = "that" ->
            IF index = 0
            THEN <<"@THAT", "A=M", "D=M", "@SP", "AM=M+1", "A=A-1", "M=D">>
            ELSE <<"@" \o Itoa(index), "D=A", "@THAT", "A=D+M", "D=M",
                 "@SP", "AM=M+1", "A=A-1", "M=D">>
      [] segment = "pointer" ->
            IF index = 0
            THEN <<"@THIS", "D=M", "@SP", "AM=M+1", "A=A-1", "M=D">>
            ELSE IF index = 1
            THEN <<"@THAT", "D=M", "@SP", "AM=M+1", "A=A-1", "M=D">>
            ELSE <<>>
      [] segment = "temp" ->
            <<"@" \o Itoa(index + 5), "D=M", "@SP", "AM=M+1", "A=A-1", "M=D">>
      [] OTHER -> <<>>

HandlePushStaticUnqualified(segment, index) ==
    IF segment = "static"
    THEN <<"@" \o Itoa(index), "D=M", "@SP", "AM=M+1", "A=A-1", "M=D">>
    ELSE JoinNL(pushLines(segment, index))

handlePush(segment, index) == JoinNL(pushLines(segment, index))

PopLinesOffsetIgnored(segment, index) ==
    CASE segment = "argument" -> <<"@SP", "AM=M-1", "D=M", "@ARG", "A=M", "M=D">>
      [] segment = "local" -> <<"@SP", "AM=M-1", "D=M", "@LCL", "A=M", "M=D">>
      [] segment = "this" -> <<"@SP", "AM=M-1", "D=M", "@THIS", "A=M", "M=D">>
      [] segment = "that" -> <<"@SP", "AM=M-1", "D=M", "@THAT", "A=M", "M=D">>
      [] OTHER -> <<>>

\* the lines of handlePop's switch, before the final Join
popLines(segment, index) ==
    CASE segment = "argument" ->
            IF index = 0
            THEN <<"@SP", "AM=M-1", "D=M", "@ARG", "A=M", "M=D">>
            ELSE <<"@" \o Itoa(index), "D=A", "@ARG", "A=D+M", "D=A",
                   locRegister, "M=D",
                   "@SP", "AM=M-1", "D=M", locRegister, "A=M", "M=D">>
      [] segment = "local" ->
            IF index = 0
            THEN <<"@SP", "AM=M-1", "D=M", "@LCL", "A=M", "M=D">>
            ELSE <<"@" \o Itoa(index), "D=A", "@LCL", "A=D+M", "D=A",
                   locRegister, "M=D",
                   "@SP", "AM=M-1", "D=M", locRegister, "A=M", "M=D">>
      [] segment = "static" ->
            <<"@SP", "AM=M-1", "D=M",
              "@" \o currentFile \o "." \o Itoa(index), "M=D">>
      [] segment = "this" ->
            IF index = 0
            THEN <<"@SP", "AM=M-1", "D=M", "@THIS", "A=M", "M=D">>
            ELSE <<"@" \o Itoa(index), "D=A", "@THIS", "A=D+M", "D=A",
                   locRegister, "M=D",
                   "@SP", "AM=M-1", "D=M", locRegister, "A=M", "M=D">>
      [] segment = "that" ->
            IF index = 0
            THEN <<"@SP", "AM=M-1", "D=M", "@THAT", "A=M", "M=D">>
            ELSE <<"@" \o Itoa(index), "D=A", "@THAT", "A=D+M", "D=A",
                   locRegister, "M=D",
                   "@SP", "AM=M-1", "D=M", locRegister, "A=M", "M=D">>
      [] segment = "pointer" ->
            IF index = 0
            THEN <<"@SP", "AM=M-1", "D=M", "@THIS", "M=D">>
            ELSE IF index = 1
            THEN <<"@SP", "AM=M-1", "D=M", "@THAT", "M=D">>
            ELSE <<>>
      [] segment = "temp" ->
            <<"@SP", "AM=M-1", "D=M", "@" \o Itoa(index + 5), "M=D">>
      [] OTHER -> <<>>

handlePop(segment, index) == JoinNL(popLines(segment, index))

\* What translating one command yields: the block it returns, the error it
\* returns ("" for nil) and the package-level variables as it leaves them.
Res(out, err) ==
    [out |-> out, err |-> err, funcStack |-> funcStack,
     eqCount |-> eqCount, gtCount |-> gtCount, ltCount |-> ltCount]

RECURSIVE Repeat(_, _)
\* the loop "for i := 0; i < n; i++ { lines = append(lines, block...) }"
Repeat(block, n) == IF n <= 0 THEN <<>> ELSE block \o Repeat(block, n - 1)

FunctionZeroesOneTooFew(name, nVars) ==
    LET numVars == Atoi(nVars)
        initLocalVariable == <<"@SP", "A=M", "M=0", "@SP", "M=M+1">>
        lines == <<"(" \o getFolderName \o "." \o name \o ")">>
                    \o Repeat(initLocalVariable, numVars.val - 1)
    IN  IF ~numVars.ok
        THEN Res(<<>>, "invalid vars for function definition")
        ELSE [Res(JoinNL(lines), "") EXCEPT !.funcStack.current = name]

function(name, nVars) ==
    LET numVars == Atoi(nVars)
        initLocalVariable == <<"@SP", "A=M", "M=0", "@SP", "M=M+1">>
        lines == <<"(" \o getFolderName \o "." \o name \o ")">>
                    \o Repeat(initLocalVariable, numVars.val)
    IN  IF ~numVars.ok
        THEN Res(<<>>, "invalid vars for function definition")
        ELSE [Res(JoinNL(lines), "") EXCEPT !.funcStack.current = name]

CallSameReturnLabel(name, nArgs) ==
    LET numArgs == Atoi(nArgs)
        returnLabel == getFolderName \o "." \o funcStack.current \o "$ret"
                          \o Itoa(funcStack.returnCounter)
        lines == <<"@" \o getFolderName \o "." \o name, "D=A", locRegister, "M=D",
                   "@" \o Itoa(numArgs.val), "D=A", valueRegister, "M=D",
                   "@" \o returnLabel, "D=A", "@CALL", "0;JMP",
                   "(" \o returnLabel \o ")">>
    IN  IF ~numArgs.ok
        THEN Res(<<>>, "invalid args to function")
        ELSE Res(JoinNL(lines), "")

CallEntersCallee(name, nArgs) ==
    LET numArgs == Atoi(nArgs)
        returnLabel == getFolderName \o "." \o funcStack.current \o "$ret"
                          \o Itoa(funcStack.returnCounter)
        lines == <<"@" \o getFolderName \o "." \o name, "D=A", locRegister, "M=D",
                   "@" \o Itoa(numArgs.val), "D=A", valueRegister, "M=D",
                   "@" \o returnLabel, "D=A", "@CALL", "0;JMP",
                   "(" \o returnLabel \o ")">>
    IN  IF ~numArgs.ok
        THEN Res(<<>>, "invalid args to function")
        ELSE [Res(JoinNL(lines), "") EXCEPT
                 !.funcStack = [current |-> name,
                                returnCounter |-> funcStack.returnCounter + 1]]

callFunction(name, nArgs) ==
    LET numArgs == Atoi(nArgs)
        callingFuncName == funcStack.current
        returnLabel == getFolderName \o "." \o callingFuncName \o "$ret"
                          \o Itoa(funcStack.returnCounter)
        lines == <<\* Put the function address into the locRegister
                   "@" \o getFolderName \o "." \o name, "D=A", locRegister, "M=D",
                   \* Put the number of args into the valueRegister
                   "@" \o Itoa(numArgs.val), "D=A", valueRegister, "M=D",
                   \* Put the return address into the D register
                   "@" \o returnLabel, "D=A",
                   \* Jump to the call routine
                   "@CALL", "0;JMP",
                   \* Set the return label for this call
                   "(" \o returnLabel \o ")">>
    IN  IF ~numArgs.ok
        THEN Res(<<>>, "invalid args to function")
        ELSE [Res(JoinNL(lines), "") EXCEPT
                 !.funcStack.returnCounter = funcStack.returnCounter + 1]

returnFromFunction == JoinNL(<<"@RETURN", "0;JMP">>)

gotoLabel(label) ==
    LET callingFuncName == funcStack.current
        constructedLabel == callingFuncName \o "$" \o label
    IN  JoinNL(<<"@" \o constructedLabel, "0;JMP">>)

ifGoto(label) ==
    LET callingFuncName == funcStack.current
        constructedLabel == callingFuncName \o "$" \o label
    IN  JoinNL(<<"@SP", "AM=M-1", "D=M", "@" \o constructedLabel, "D;JNE">>)

LabelWithoutFunction(lbl) == <<"(" \o lbl \o ")">>

label(lbl) ==
    LET callingFuncName == funcStack.current
        constructedLabel == callingFuncName \o "$" \o lbl
    IN  <<"(" \o constructedLabel \o ")">>

AddDropsOperand == <<"@SP", "AM=M-1", "D=M", "A=A-1", "M=D">>

add == <<"@SP", "AM=M-1", "D=M", "A=A-1", "M=D+M">>

SubOperandsSwapped == <<"@SP", "AM=M-1", "D=M", "A=A-1", "M=D-M">>

sub == <<"@SP", "AM=M-1", "D=M", "A=A-1", "M=M-D">>

neg == <<"@SP", "AM=M-1", "M=-M", "@SP", "M=M+1">>

EqJumpsToGt ==
    LET retAddress == "RET_ADDRESS_EQ" \o Itoa(eqCount)
        lines == <<"@" \o retAddress, "D=A", "@GT", "0;JMP",
                   "(" \o retAddress \o ")">>
    IN  [Res(lines, "") EXCEPT !.eqCount = eqCount + 1]

eq ==
    LET retAddress == "RET_ADDRESS_EQ" \o Itoa(eqCount)
        lines == <<"@" \o retAddress, "D=A", "@EQ", "0;JMP",
                   "(" \o retAddress \o ")">>
    IN  [Res(lines, "") EXCEPT !.eqCount = eqCount + 1]

gt ==
    LET retAddress == "RET_ADDRESS_GT" \o Itoa(gtCount)
        lines == <<"@" \o retAddress, "D=A", "@GT", "0;JMP",
                   "(" \o retAddress \o ")">>
    IN  [Res(lines, "") EXCEPT !.gtCount = gtCount + 1]

lt ==
    LET retAddress == "RET_ADDRESS_LT" \o Itoa(ltCount)
        lines == <<"@" \o retAddress, "D=A", "@LT", "0;JMP",
                   "(" \o retAddress \o ")">>
    IN  [Res(lines, "") EXCEPT !.ltCount = ltCount + 1]

and == <<"@SP", "AM=M-1", "D=M", "A=A-1", "M=D&M">>

or == <<"@SP", "AM=M-1", "D=M", "A=A-1", "M=D|M">>

not == <<"@SP", "AM=M-1", "M=!M", "@SP", "M=M+1">>

operation(op) ==
    CASE op = "add" -> Res(add, "")
      [] op = "sub" -> Res(sub, "")
      [] op = "neg" -> Res(neg, "")
      [] op = "eq" -> eq
      [] op = "gt" -> gt
      [] op = "lt" -> lt
      [] op = "and" -> Res(and, "")
      [] op = "or" -> Res(or, "")
      [] op = "not" -> Res(not, "")
      [] OTHER -> Res(<<>>, "invalid operation")

\* command is strings.Fields(line): the line's tokens.  Indexing past the
\* end of the token slice is a run-time panic of the Go program.
parseCommand(command) ==
    LET first == command[1]
        n == Len(command)
        panic == Res(<<>>, "panic: index out of range")
    IN  CASE first = "function" ->
                IF n < 3 THEN panic ELSE function(command[2], command[3])
          [] first = "call" ->
                IF n < 3 THEN panic ELSE callFunction(command[2], command[3])
          [] first = "return" -> Res(returnFromFunction, "")
          [] first = "goto" ->
                IF n < 2 THEN panic ELSE Res(gotoLabel(command[2]), "")
          [] first = "if-goto" ->
                IF n < 2 THEN panic ELSE Res(ifGoto(command[2]), "")
          [] first = "label" ->
                IF n < 2 THEN panic ELSE Res(label(command[2]), "")
          [] OTHER ->
                IF n = 1
                THEN LET r == operation(command[1])
                     IN  IF r.err # "" THEN r ELSE [r EXCEPT !.out = JoinNL(r.out)]
                ELSE IF n < 3 THEN panic
                ELSE LET num == Atoi(command[3])
                     IN  IF num.ok /\ first = "push"
                         THEN Res(handlePush(command[2], num.val), "")
                         ELSE IF num.ok /\ first = "pop"
                         THEN Res(handlePop(command[2], num.val), "")
                         ELSE Res(<<>>, "invalid command")

-----------------------------------------------------------------------------
(* the target machine: assembler and CPU *)

RECURSIVE Flatten(_)
\* the output file: the text of every block, in order
Flatten(blocks) ==
    IF blocks = <<>> THEN <<>> ELSE Head(blocks).text \o Flatten(Tail(blocks))

IsLabelLine(line) == Len(line) > 0 /\ Head(line) = "("

IsInstruction(line) == Len(line) > 0 /\ Head(line) # "("

LabelName(line) == SubSeq(line, 2, Len(line) - 1)

Predefined ==
    [s \in {"SP", "LCL", "ARG", "THIS", "THAT", "R5", "R13", "R14", "R15"} |->
        CASE s = "SP" -> 0 [] s = "LCL" -> 1 [] s = "ARG" -> 2
          [] s = "THIS" -> 3 [] s = "THAT" -> 4 [] s = "R5" -> 5
          [] s = "R13" -> 13 [] s = "R14" -> 14 [] s = "R15" -> 15]

Min(S) == CHOOSE x \in S : \A y \in S : x <= y

\* where a line first occurs
FirstAt(lines, l) == Min({i \in DOMAIN lines : lines[i] = l})

\* first pass: a label stands for the address of the next instruction, that
\* is the number of instructions before it (a label defined twice keeps
\* its first address)
FirstPass(lines) ==
    LET labels == {LabelName(lines[i]) : i \in {j \in DOMAIN lines : IsLabelLine(lines[j])}}
    IN  [l \in labels |->
            Cardinality({j \in 1..FirstAt(lines, "(" \o l \o ")") :
                            IsInstruction(lines[j])})]

\* second pass: every other symbol is a variable, given the next free cell
\* from 16 on in the order of first use
SecondPass(lines, tab) ==
    LET isVar(l) == /\ Len(l) > 1 /\ Head(l) = "@"
                    /\ ~AllDigits(Tail(l))
                    /\ Tail(l) \notin DOMAIN tab
        uses == {lines[i] : i \in {j \in DOMAIN lines : isVar(lines[j])}}
    IN  [s \in {Tail(l) : l \in uses} |->
            16 + Cardinality({u \in uses :
                                FirstAt(lines, u) < FirstAt(lines, "@" \o s)})]

Assemble(lines) ==
    LET known == FirstPass(lines) @@ Predefined
    IN  [rom |-> SelectSeq(lines, IsInstruction),
         symtab |-> SecondPass(lines, known) @@ known]

Peek(mem, a) == IF a \in DOMAIN mem THEN mem[a] ELSE 0

Poke(mem, a, v) ==
    IF v = 0
    THEN [x \in DOMAIN mem \ {a} |-> mem[x]]
    ELSE (a :> v) @@ mem

\* the ALU: comp field of a C-instruction over A, D and M = RAM[A]
Comp(c, a, d, m) ==
    CASE c = "0" -> 0
      [] c = "1" -> 1
      [] c = "-1" -> W(0 - 1)
      [] c = "D" -> d
      [] c = "A" -> a
      [] c = "M" -> m
      [] c = "!D" -> BitNot(d)
      [] c = "!A" -> BitNot(a)
      [] c = "!M" -> BitNot(m)
      [] c = "-D" -> W(0 - d)
      [] c = "-A" -> W(0 - a)
      [] c = "-M" -> W(0 - m)
      [] c = "D+1" -> W(d + 1)
      [] c = "A+1" -> W(a + 1)
      [] c = "M+1" -> W(m + 1)
      [] c = "D-1" -> W(d - 1)
      [] c = "A-1" -> W(a - 1)
      [] c = "M-1" -> W(m - 1)
      [] c = "D+A" -> W(d + a)
      [] c = "D+M" -> W(d + m)
      [] c = "D-A" -> W(d - a)
      [] c = "D-M" -> W(d - m)
      [] c = "A-D" -> W(a - d)
      [] c = "M-D" -> W(m - d)
      [] c = "D&A" -> BitAnd(d, a)
      [] c = "D&M" -> BitAnd(d, m)
      [] c = "D|A" -> BitOr(d, a)
      [] c = "D|M" -> BitOr(d, m)

Jumps(j, v) ==
    CASE j = "JGT" -> Signed(v) > 0
      [] j = "JEQ" -> v = 0
      [] j = "JGE" -> Signed(v) >= 0
      [] j = "JLT" -> Signed(v) < 0
      [] j = "JNE" -> v # 0
      [] j = "JLE" -> Signed(v) <= 0
      [] j = "JMP" -> TRUE

\* DEST=COMP;JUMP, either of DEST= and ;JUMP possibly missing
Decode(line) ==
    LET e == IndexOf(line, "=", 1)
        sc == IndexOf(line, ";", 1)
    IN  [dest |-> IF e > 0 THEN SubSeq(line, 1, e - 1) ELSE "",
         comp |-> SubSeq(line, e + 1, IF sc > 0 THEN sc - 1 ELSE Len(line)),
         jump |-> IF sc > 0 THEN SubSeq(line, sc + 1, Len(line)) ELSE ""]

Fetch == rom[pc + 1]

Running == status = "running" /\ pc < Len(rom)

\* @value / @symbol
ExecA ==
    /\ Running
    /\ Head(Fetch) = "@"
    /\ LET s == Tail(Fetch)
       IN  A' = IF AllDigits(s) THEN DigitsValue(s, 0) ELSE symtab[s]
    /\ pc' = pc + 1
    /\ UNCHANGED <<D, RAM, rom, symtab, scen>>
    /\ UNCHANGED tvars

\* the effect of a C-instruction on A, D and RAM[A]
Store(i) ==
    LET v == Comp(i.comp, A, D, Peek(RAM, A))
    IN  /\ A' = IF IndexOf(i.dest, "A", 1) > 0 THEN v ELSE A
        /\ D' = IF IndexOf(i.dest, "D", 1) > 0 THEN v ELSE D
        /\ RAM' = IF IndexOf(i.dest, "M", 1) > 0 THEN Poke(RAM, A, v) ELSE RAM

\* DEST=COMP
ExecC ==
    /\ Running
    /\ Head(Fetch) # "@"
    /\ Decode(Fetch).jump = ""
    /\ Store(Decode(Fetch))
    /\ pc' = pc + 1
    /\ UNCHANGED <<rom, symtab, scen>>
    /\ UNCHANGED tvars

\* COMP;JUMP
ExecJ ==
    /\ Running
    /\ Head(Fetch) # "@"
    /\ Decode(Fetch).jump # ""
    /\ Store(Decode(Fetch))
    /\ pc' = IF Jumps(Decode(Fetch).jump, Comp(Decode(Fetch).comp, A, D, Peek(RAM, A)))
             THEN A ELSE pc + 1
    /\ UNCHANGED <<rom, symtab, scen>>
    /\ UNCHANGED tvars

-----------------------------------------------------------------------------
(* the driver: main, loadFolder, parseFile, Parser.Parse *)

\* path.Ext: the suffix from the last dot of the last path element
Ext(p) ==
    LET slash == LastIndexOf(p, "/", Len(p))
        dot == LastIndexOf(p, ".", Len(p))
    IN  IF dot > slash THEN SubSeq(p, dot, Len(p)) ELSE ""

IsLower(ch) == IndexOf("abcdefghijklmnopqrstuvwxyz", ch, 1) > 0

\* command lines already translated (blocks that come from a command)
TotalLines == Cardinality({i \in DOMAIN instructions : instructions[i].cmd # <<>>})

\* main() up to the first file: the dispatch on the extension and, for a
\* folder, loadFolder's glob, "(START)" and the optional bootstrap call
Start ==
    /\ status = "start"
    /\ LET ext == Ext(pathToTranslate)
           init == callFunction("Sys.init", "0")
           fatal == \/ pathToTranslate = ""
                    \/ ext \notin {".vm", ""}
                    \/ ext = "" /\ scen.files = <<>>
       IN  /\ status' = IF fatal THEN "fatal" ELSE "files"
           /\ pending' =
                 IF fatal THEN <<>>
                 ELSE IF ext = ".vm" THEN <<pathToTranslate>>
                 ELSE [i \in DOMAIN scen.files |->
                          pathToTranslate \o "/" \o scen.files[i]]
           /\ instructions' =
                 IF fatal \/ ext = ".vm" THEN <<>>
                 ELSE IF shouldBootstrap
                 THEN <<Block(<<"(START)">>),
                        [Block(init.out) EXCEPT !.cmd = <<"call", "Sys.init", "0">>]>>
                 ELSE <<Block(<<"(START)">>)>>
           /\ funcStack' = IF ~fatal /\ ext = "" /\ shouldBootstrap
                           THEN init.funcStack ELSE funcStack
    /\ UNCHANGED <<eqCount, gtCount, ltCount, currentFile, pathToTranslate,
                   shouldBootstrap, shouldSetStackPointer, shouldEndWithLoop, lineNo>>
    /\ UNCHANGED mvars

\* parseFile, up to the scanner loop
OpenFile ==
    /\ status = "files"
    /\ pending # <<>>
    /\ LET fileName == Head(pending)
           fatal == \/ IsLower(Head(fileName))
                    \/ Ext(fileName) # ".vm"
       IN  /\ status' = IF fatal THEN "fatal" ELSE "parsing"
           /\ currentFile' = IF fatal THEN currentFile ELSE Base(fileName)
    /\ lineNo' = 0
    /\ UNCHANGED <<funcStack, eqCount, gtCount, ltCount, pathToTranslate,
                   shouldBootstrap, shouldSetStackPointer, shouldEndWithLoop,
                   pending, instructions>>
    /\ UNCHANGED mvars

\* bound on the command lines read in one translation, over all files
MaxLines == 4

\* what the scanner can deliver next from the open file
InputLines ==
    IF scen.kind = "free"
    THEN IF TotalLines < MaxLines THEN scen.alphabet ELSE {}
    ELSE LET u == scen.units[Head(pending)]
         IN  IF lineNo < Len(u) THEN {u[lineNo + 1]} ELSE {}

AtEOF ==
    IF scen.kind = "free" THEN TRUE ELSE lineNo >= Len(scen.units[Head(pending)])

ParseLineSkipsBadLine ==
    /\ status = "parsing"
    /\ \E line \in InputLines :
          LET r == parseCommand(line)
          IN  /\ status' = "parsing"
              /\ instructions' =
                    IF r.err # "" THEN instructions
                    ELSE Append(instructions,
                                [file |-> Head(pending), cmd |-> line,
                                 text |-> r.out])
              /\ funcStack' = r.funcStack
              /\ eqCount' = r.eqCount
              /\ gtCount' = r.gtCount
              /\ ltCount' = r.ltCount
    /\ lineNo' = lineNo + 1
    /\ UNCHANGED <<currentFile, pathToTranslate, shouldBootstrap,
                   shouldSetStackPointer, shouldEndWithLoop, pending>>
    /\ UNCHANGED mvars

\* one iteration of Parser.Parse's loop: parseCommand on the next line, then
\* log.Fatal on an error or the append of its block; a run-time panic inside
\* parseCommand ends the process without any returned error
ParseLine ==
    /\ status = "parsing"
    /\ \E line \in InputLines :
          LET r == parseCommand(line)
          IN  /\ status' = IF r.err = "" THEN "parsing"
                            ELSE IF r.err = "panic: index out of range" THEN "panic"
                            ELSE "fatal"
              /\ instructions' =
                    IF r.err # "" THEN instructions
                    ELSE Append(instructions,
                                [file |-> Head(pending), cmd |-> line,
                                 text |-> r.out])
              /\ funcStack' = r.funcStack
              /\ eqCount' = r.eqCount
              /\ gtCount' = r.gtCount
              /\ ltCount' = r.ltCount
    /\ lineNo' = lineNo + 1
    /\ UNCHANGED <<currentFile, pathToTranslate, shouldBootstrap,
                   shouldSetStackPointer, shouldEndWithLoop, pending>>
    /\ UNCHANGED mvars

\* the scanner is exhausted: parseFile returns, the next file is next
CloseFile ==
    /\ status = "parsing"
    /\ AtEOF
    /\ status' = "files"
    /\ pending' = Tail(pending)
    /\ UNCHANGED <<funcStack, eqCount, gtCount, ltCount, currentFile, pathToTranslate,
                   shouldBootstrap, shouldSetStackPointer, shouldEndWithLoop,
                   lineNo, instructions>>
    /\ UNCHANGED mvars

\* every file is translated: loadFolder's tail (shared routines, start
\* instructions, final loop) for a folder, then save
Finish ==
    /\ status = "files"
    /\ pending = <<>>
    /\ LET infiniteLoop == <<"(INFINITE_LOOP)", "@INFINITE_LOOP", "0;JMP">>
           all == prependStartInstructions(prependFunctions(instructions))
       IN  instructions' =
              IF Ext(pathToTranslate) = ".vm" THEN instructions
              ELSE IF shouldEndWithLoop THEN Append(all, Block(infiniteLoop))
              ELSE all
    /\ status' = "saved"
    /\ UNCHANGED <<funcStack, eqCount, gtCount, ltCount, currentFile, pathToTranslate,
                   shouldBootstrap, shouldSetStackPointer, shouldEndWithLoop,
                   pending, lineNo>>
    /\ UNCHANGED mvars

\* the saved file is assembled, loaded and started at address 0
Load ==
    /\ status = "saved"
    /\ scen.kind # "free"
    /\ LET prog == Assemble(Flatten(instructions))
       IN  /\ rom' = prog.rom
           /\ symtab' = prog.symtab
    /\ pc' = 0
    /\ A' = 0
    /\ D' = 0
    /\ RAM' = scen.ram
    /\ status' = "running"
    /\ UNCHANGED scen
    /\ UNCHANGED <<funcStack, eqCount, gtCount, ltCount, currentFile, pathToTranslate,
                   shouldBootstrap, shouldSetStackPointer, shouldEndWithLoop,
                   pending, lineNo, instructions>>

-----------------------------------------------------------------------------
(* specifications *)

\* the package-level initialisers of src/main.go and a machine not yet loaded
Fresh ==
    /\ funcStack = [current |-> "Sys.init", returnCounter |-> 0]
    /\ eqCount = 0
    /\ gtCount = 0
    /\ ltCount = 0
    /\ currentFile = ""
    /\ pending = <<>>
    /\ lineNo = 0
    /\ instructions = <<>>
    /\ status = "start"
    /\ rom = <<>>
    /\ symtab = <<>>
    /\ pc = 0
    /\ A = 0
    /\ D = 0
    /\ RAM = <<>>

\* the ways main() is run on unconstrained files: a folder of one file, a
\* folder of two files with the bootstrap call and both other flags, or a
\* single file
Runs ==
    {<<"Prog", <<"Main.vm">>, FALSE>>,
     <<"Prog", <<"Main.vm", "Sys.vm">>, TRUE>>,
     <<"Main.vm", <<>>, FALSE>>}

\* the translator on any sequence of at most MaxLines lines of the alphabet
InitFree(alphabet) ==
    /\ Fresh
    /\ \E run \in Runs :
          /\ pathToTranslate = run[1]
          /\ scen = [kind |-> "free", files |-> run[2], alphabet |-> alphabet]
          /\ shouldBootstrap = run[3]
          /\ shouldSetStackPointer = run[3]
          /\ shouldEndWithLoop = run[3]

\* command lines that generate labels: calls and comparisons, in functions
\* one of which is named like a return label
Alphabet ==
    {<<"function", "f", "0">>, <<"function", "f$ret1", "1">>,
     <<"call", "f", "0">>, <<"call", "g", "1">>,
     <<"eq">>, <<"gt">>, <<"lt">>}

Init == InitFree(Alphabet)

Next == Start \/ OpenFile \/ ParseLine \/ CloseFile \/ Finish

Spec == Init /\ [][Next]_vars

-----------------------------------------------------------------------------
(* runs of translated programs on the machine *)

NextRun ==
    \/ Start \/ OpenFile \/ ParseLine \/ CloseFile \/ Finish
    \/ Load \/ ExecA \/ ExecC \/ ExecJ

RECURSIVE RamOf(_)
\* the memory holding the given <<address, word>> pairs, zero elsewhere
RamOf(pairs) ==
    IF pairs = <<>> THEN <<>>
    ELSE Poke(RamOf(Tail(pairs)), Head(pairs)[1], Head(pairs)[2])

\* the translation of folder Prog holding the one file Main.vm with the
\* given command lines, without bootstrap, run from the given memory
InitRun(s) ==
    /\ Fresh
    /\ pathToTranslate = "Prog"
    /\ shouldBootstrap = FALSE
    /\ shouldSetStackPointer = FALSE
    /\ shouldEndWithLoop = FALSE
    /\ scen = s

OneFile(cmds) == "Prog/Main.vm" :> cmds

\* the program stops in this loop
EndLoop == <<<<"label", "END">>, <<"goto", "END">>>>

AtLabel(l) == status = "running" /\ l \in DOMAIN symtab /\ pc = symtab[l]

SP == Peek(RAM, 0)

LCL == Peek(RAM, 1)

ARG == Peek(RAM, 2)

THIS == Peek(RAM, 3)

THAT == Peek(RAM, 4)

\* stack pointers and base-pointer quadruples <<LCL, ARG, THIS, THAT>> a
\* caller may hold
StackBases == {256, 300, 2000}

BasePointers == {<<300, 290, 3000, 3010>>, <<0, 0, 0, 0>>, <<65535, 1, 32768, 16>>}

RECURSIVE PushConstants(_)
PushConstants(n) ==
    IF n = 0 THEN <<>>
    ELSE Append(PushConstants(n - 1), <<"push", "constant", Itoa(n)>>)

MaxArgs == 2

MaxLocals == 2

\* C1: n arguments are pushed, f is called with them, and f (k locals)
\* returns at once or after pushing a value
CallProgram(n, k, ret) ==
    PushConstants(n)
       \o <<<<"label", "CALLSITE">>, <<"call", "f", Itoa(n)>>>>
       \o EndLoop
       \o <<<<"function", "f", Itoa(k)>>>>
       \o (IF ret THEN <<<<"push", "constant", "9">>>> ELSE <<>>)
       \o <<<<"return">>>>

InitCall ==
    \E sp \in StackBases, bp \in BasePointers, n \in 0..MaxArgs,
       k \in 0..MaxLocals, ret \in BOOLEAN :
        InitRun([kind |-> "call", files |-> <<"Main.vm">>,
                 units |-> OneFile(CallProgram(n, k, ret)),
                 ram |-> RamOf(<<<<0, sp>>, <<1, bp[1]>>, <<2, bp[2]>>,
                                 <<3, bp[3]>>, <<4, bp[4]>>>>),
                 sp |-> sp, bp |-> bp, n |-> n, k |-> k, ret |-> ret])

SpecCall == InitCall /\ [][NextRun]_vars

\* C1: after call f n, function f k and return, SP = (SP before the call)
\* - n + 1 and LCL, ARG, THIS, THAT hold their values from before the call.
\* (At the call site SP is scen.sp + n and the base pointers are scen.bp.)
CallReturnRestores ==
    /\ AtLabel("Sys.init$CALLSITE") =>
          /\ SP = scen.sp + scen.n
          /\ <<LCL, ARG, THIS, THAT>> = scen.bp
    /\ AtLabel("Sys.init$END") =>
          /\ SP = (scen.sp + scen.n) - scen.n + 1
          /\ <<LCL, ARG, THIS, THAT>> = scen.bp

CallReturned ==
    /\ AtLabel("Sys.init$END")
    /\ scen.n = 2
    /\ scen.k = 2
    /\ scen.bp[1] = 300
    /\ SP = scen.sp + 1

\* constants a VM program can push (an A-instruction holds 15 bits)
Constants == {0, 1, 21, 16384, 32767}

\* C2: spec.md's end-to-end scenario, unit Main with function Main.double
DoubleProgram(x) ==
    <<<<"push", "constant", Itoa(x)>>, <<"call", "Main.double", "1">>>>
       \o EndLoop
       \o <<<<"function", "Main.double", "1">>,
            <<"push", "argument", "0">>, <<"push", "argument", "0">>, <<"add">>,
            <<"pop", "local", "0">>, <<"push", "local", "0">>, <<"return">>>>

InitDouble ==
    \E sp \in StackBases, bp \in BasePointers, x \in Constants :
        InitRun([kind |-> "double", files |-> <<"Main.vm">>,
                 units |-> OneFile(DoubleProgram(x)),
                 ram |-> RamOf(<<<<0, sp>>, <<1, bp[1]>>, <<2, bp[2]>>,
                                 <<3, bp[3]>>, <<4, bp[4]>>>>),
                 sp |-> sp, bp |-> bp, x |-> x])

SpecDouble == InitDouble /\ [][NextRun]_vars

\* C2: push constant x, call Main.double 1 leaves 2x mod 2^16 on top of the
\* stack and the stack pointer one above its height before the push.
DoubleLeavesTwiceX ==
    AtLabel("Sys.init$END") =>
        /\ SP = scen.sp + 1
        /\ Peek(RAM, SP - 1) = (2 * scen.x) % 2^16

DoubleOf21 ==
    /\ AtLabel("Sys.init$END")
    /\ scen.x = 21
    /\ Peek(RAM, SP - 1) = 42

MaxDepth == 2

\* C3: Main.rec stores the sentinel 100 + argument in its local, calls
\* itself with argument - 1 while the argument is not 0, and returns its
\* local.  BEFORE is the call site of the recursive call (its argument
\* pushed), AFTER the point where that call has returned.
RecProgram(depth) ==
    <<<<"push", "constant", Itoa(depth)>>, <<"call", "Main.rec", "1">>>>
       \o EndLoop
       \o <<<<"function", "Main.rec", "1">>,
            <<"push", "argument", "0">>, <<"push", "constant", "100">>, <<"add">>,
            <<"pop", "local", "0">>,
            <<"push", "argument", "0">>, <<"if-goto", "RECURSE">>,
            <<"push", "local", "0">>, <<"return">>,
            <<"label", "RECURSE">>,
            <<"push", "argument", "0">>, <<"push", "constant", "1">>, <<"sub">>,
            <<"label", "BEFORE">>,
            <<"call", "Main.rec", "1">>,
            <<"label", "AFTER">>,
            <<"pop", "temp", "0">>,
            <<"push", "local", "0">>, <<"return">>>>

InitRec ==
    \E sp \in StackBases, bp \in BasePointers, depth \in 0..MaxDepth :
        InitRun([kind |-> "rec", files |-> <<"Main.vm">>,
                 units |-> OneFile(RecProgram(depth)),
                 ram |-> RamOf(<<<<0, sp>>, <<1, bp[1]>>, <<2, bp[2]>>,
                                 <<3, bp[3]>>, <<4, bp[4]>>>>),
                 sp |-> sp, bp |-> bp, depth |-> depth])

SpecRec == InitRec /\ [][NextRun]_vars

\* The activation with argument v is the (depth - v)-th; each activation
\* takes seven cells (argument, five saved words, local), so its ARG and
\* LCL are:
ArgOf(v) == scen.sp + 7 * (scen.depth - v)

LclOf(v) == ArgOf(v) + 6

\* C3: at the recursive call site and again after the call has returned, the
\* running activation (argument v) has the same ARG and LCL, its local
\* holds its sentinel, and so does the local (and argument) of every
\* earlier activation.
RecursionKeepsFrames ==
    (AtLabel("Main.rec$BEFORE") \/ AtLabel("Main.rec$AFTER")) =>
        LET v == Peek(RAM, ARG)
        IN  /\ v \in 1..scen.depth
            /\ ARG = ArgOf(v)
            /\ LCL = LclOf(v)
            /\ SP = LCL + 2
            /\ \A u \in v..scen.depth :
                  /\ Peek(RAM, ArgOf(u)) = u
                  /\ Peek(RAM, LclOf(u)) = 100 + u

OuterCallReturned ==
    /\ AtLabel("Main.rec$AFTER")
    /\ scen.depth = 2
    /\ Peek(RAM, ARG) = 2
    /\ Peek(RAM, LCL) = 102

\* 16-bit words an operand may be: small ones, the largest positive, the
\* most negative (32768 = -32768) and -1
Operands == {0, 1, 7, 8, 32767, 32768, 65535}

\* a run whose working stack holds x (second from top) and y (top): SP is
\* sp + 2, and only the command lines ops are run
InitOps(kind, opsSet) ==
    \E sp \in StackBases, x \in Operands, y \in Operands, ops \in opsSet :
        InitRun([kind |-> kind, files |-> <<"Main.vm">>,
                 units |-> OneFile(ops \o EndLoop),
                 ram |-> RamOf(<<<<0, sp + 2>>, <<sp, x>>, <<sp + 1, y>>>>),
                 sp |-> sp, x |-> x, y |-> y, ops |-> ops])

InitCmp == InitOps("cmp", {<<<<"eq">>>>, <<<<"gt">>>>, <<<<"lt">>>>})

SpecCmp == InitCmp /\ [][NextRun]_vars

\* the shared routine a comparison's call site jumps to
RoutineOf(op) == CASE op = "eq" -> "EQ" [] op = "gt" -> "GT" [] op = "lt" -> "LT"

\* C4: eq, gt and lt pop two values and push exactly one value that is 0 or
\* all bits set (net stack height -1); the shared routine's final jump (the
\* fifth instruction from END_<op>) goes to the call site's return label,
\* which is where the run continues.
ComparisonIsCanonical ==
    LET r == RoutineOf(scen.ops[1][1])
    IN  /\ AtLabel("Sys.init$END") =>
              /\ SP = scen.sp + 1
              /\ Peek(RAM, scen.sp) \in {0, 2^16 - 1}
        /\ (status = "running" /\ pc = symtab["END_" \o r] + 4) =>
              /\ Fetch = "0;JMP"
              /\ A = symtab["RET_ADDRESS_" \o r \o "0"]
              /\ A = symtab["Sys.init$END"]

LtOfSevenEight ==
    /\ AtLabel("Sys.init$END")
    /\ scen.ops = <<<<"lt">>>>
    /\ scen.x = 7
    /\ scen.y = 8
    /\ Peek(RAM, scen.sp) = 2^16 - 1

\* C5: push constant a, push constant b, eq
EqConstants == {0, 7, 8, 32767}

InitEq ==
    \E sp \in StackBases, a \in EqConstants, b \in EqConstants :
        InitRun([kind |-> "eq", files |-> <<"Main.vm">>,
                 units |-> OneFile(<<<<"push", "constant", Itoa(a)>>,
                                     <<"push", "constant", Itoa(b)>>, <<"eq">>>>
                                      \o EndLoop),
                 ram |-> RamOf(<<<<0, sp>>>>),
                 sp |-> sp, a |-> a, b |-> b])

SpecEq == InitEq /\ [][NextRun]_vars

\* C5: push constant a, push constant b, eq leaves -1 (all bits set) on top
\* of the stack exactly when a = b, and 0 otherwise.
EqOfConstants ==
    AtLabel("Sys.init$END") =>
        /\ SP = scen.sp + 1
        /\ Peek(RAM, SP - 1) = IF scen.a = scen.b THEN 2^16 - 1 ELSE 0

EqSevenSeven ==
    /\ AtLabel("Sys.init$END")
    /\ scen.a = 7
    /\ scen.b = 7
    /\ Peek(RAM, SP - 1) = 2^16 - 1

InitArith ==
    InitOps("arith", {<<<<"add">>>>, <<<<"sub">>>>, <<<<"and">>>>, <<<<"or">>>>,
                      <<<<"neg">>>>, <<<<"not">>>>, <<<<"neg">>, <<"neg">>>>})

SpecArith == InitArith /\ [][NextRun]_vars

\* the reference operators: a word as the set of its one bits
Bits(x) == {i \in 0..15 : (x \div 2^i) % 2 = 1}

RECURSIVE FromBits(_)
FromBits(S) ==
    IF S = {} THEN 0
    ELSE LET i == CHOOSE j \in S : TRUE IN 2^i + FromBits(S \ {i})

Reference(op, x, y) ==
    CASE op = "add" -> (x + y) % 2^16
      [] op = "sub" -> (x - y) % 2^16
      [] op = "and" -> FromBits(Bits(x) \cap Bits(y))
      [] op = "or" -> FromBits(Bits(x) \cup Bits(y))
      [] op = "neg" -> (2^16 - y) % 2^16
      [] op = "not" -> FromBits((0..15) \ Bits(y))

\* C6: add, sub, and, or replace x (second from top) and y (top) by x op y
\* modulo 2^16, sub being x - y, with net height -1; neg and not replace
\* the top value, height unchanged, leaving x below; neg twice gives y back.
ArithmeticMatchesReference ==
    AtLabel("Sys.init$END") =>
        LET op == scen.ops[1][1]
        IN  IF op \in {"neg", "not"}
            THEN /\ SP = scen.sp + 2
                 /\ Peek(RAM, scen.sp) = scen.x
                 /\ Peek(RAM, scen.sp + 1) =
                       IF Len(scen.ops) = 2 THEN scen.y
                       ELSE Reference(op, scen.x, scen.y)
            ELSE /\ SP = scen.sp + 1
                 /\ Peek(RAM, scen.sp) = Reference(op, scen.x, scen.y)

SubOfSevenEight ==
    /\ AtLabel("Sys.init$END")
    /\ scen.ops = <<<<"sub">>>>
    /\ scen.x = 7
    /\ scen.y = 8
    /\ Peek(RAM, scen.sp) = 2^16 - 1

MaxIndex == 3

\* C7: the caller's frame for the round trip: argument and local segments
\* below the working stack, this and that in the heap (overlapping when
\* that = this + 2), every cell of them and of the stack holding a value of
\* its own, and a stale value in the free cell at SP
RoundTripRam(sp, this, that) ==
    RamOf(<<<<0, sp>>, <<1, sp - 8>>, <<2, sp - 16>>, <<3, this>>, <<4, that>>,
            <<sp, 77>>>>
          \o [i \in 1..16 |-> <<sp - 17 + i, 1000 + i>>]
          \o [i \in 1..8 |-> <<this + i - 1, 2000 + i>>]
          \o [i \in 1..8 |-> <<that + i - 1, 3000 + i>>])

InitPushPop ==
    \E sp \in StackBases, heap \in {<<3000, 3010>>, <<3000, 3002>>},
       segment \in {"local", "argument", "this", "that"}, index \in 0..MaxIndex :
        InitRun([kind |-> "pushpop", files |-> <<"Main.vm">>,
                 units |-> OneFile(<<<<"push", segment, Itoa(index)>>,
                                     <<"pop", segment, Itoa(index)>>>> \o EndLoop),
                 ram |-> RoundTripRam(sp, heap[1], heap[2]),
                 sp |-> sp, segment |-> segment, index |-> index])

SpecPushPop == InitPushPop /\ [][NextRun]_vars

\* the cells of the four segments (indices 0..MaxIndex) and of the stack
\* below SP, in the frame of RoundTripRam
SegmentCells(mem) ==
    {Peek(mem, b) + i : b \in 1..4, i \in 0..MaxIndex}

StackCells == (scen.sp - 16)..(scen.sp - 1)

\* C7: push segment index, pop segment index leaves SP, every stack cell
\* below SP, the four base pointers and every segment cell (the addressed
\* one too) as they were; in fact every memory cell but the location
\* register R13 and the free cell at SP.
PushPopRoundTrip ==
    AtLabel("Sys.init$END") =>
        /\ SP = scen.sp
        /\ <<LCL, ARG, THIS, THAT>> = <<Peek(scen.ram, 1), Peek(scen.ram, 2),
                                          Peek(scen.ram, 3), Peek(scen.ram, 4)>>
        /\ \A a \in StackCells \cup SegmentCells(scen.ram) :
              Peek(RAM, a) = Peek(scen.ram, a)
        /\ \A a \in (DOMAIN RAM \cup DOMAIN scen.ram) \ {13, scen.sp} :
              Peek(RAM, a) = Peek(scen.ram, a)

ThatThreeRoundTrip ==
    /\ AtLabel("Sys.init$END")
    /\ scen.segment = "that"
    /\ scen.index = 3
    /\ Peek(RAM, scen.sp) = Peek(scen.ram, Peek(scen.ram, 4) + 3)
    /\ Peek(RAM, 13) = Peek(scen.ram, 4) + 3

-----------------------------------------------------------------------------
(* symbols in the translator's output *)

Max(S) == CHOOSE x \in S : \A y \in S : y <= x

\* blocks that are the translation of a command line with the given opcodes
BlocksOf(opcodes) ==
    {i \in DOMAIN instructions :
        instructions[i].cmd # <<>> /\ instructions[i].cmd[1] \in opcodes}

\* the return label a call or comparison site ends with
GeneratedLabel(i) == instructions[i].text[Len(instructions[i].text)]

LabelAlphabet ==
    {<<"function", "f", "0">>, <<"function", "g", "0">>,
     <<"label", "L">>, <<"goto", "L">>, <<"if-goto", "L">>}

InitLabels == InitFree(LabelAlphabet)

SpecLabels == InitLabels /\ [][Next]_vars

\* the function a block is inside: the name in the last function command
\* before it in its file ("" when there is none)
FunctionsBefore(i) ==
    {j \in BlocksOf({"function"}) :
        j < i /\ instructions[j].file = instructions[i].file}

Enclosing(i) ==
    IF FunctionsBefore(i) = {} THEN ""
    ELSE instructions[Max(FunctionsBefore(i))].cmd[2]

\* the symbol a label block defines, and the one a goto / if-goto jumps to
LabelSymbol(i) == LabelName(instructions[i].text[1])

JumpTarget(i) == Tail(instructions[i].text[Len(instructions[i].text) - 1])

\* C9: two label commands of the same name inside two (differently named)
\* functions define two distinct symbols, and a goto / if-goto of a name
\* jumps to the symbol of a label of that name exactly when that label is
\* in the jump's own enclosing function.
LabelsScopedByFunction ==
    /\ \A i \in BlocksOf({"label"}), j \in BlocksOf({"label"}) :
          (/\ instructions[i].cmd[2] = instructions[j].cmd[2]
           /\ Enclosing(i) # ""
           /\ Enclosing(j) # ""
           /\ Enclosing(i) # Enclosing(j))
             => LabelSymbol(i) # LabelSymbol(j)
    /\ \A g \in BlocksOf({"goto", "if-goto"}), l \in BlocksOf({"label"}) :
          (/\ instructions[g].cmd[2] = instructions[l].cmd[2]
           /\ Enclosing(g) # ""
           /\ Enclosing(l) # "")
             => (JumpTarget(g) = LabelSymbol(l) <=> Enclosing(g) = Enclosing(l))

SameLabelInTwoFunctions ==
    /\ status = "saved"
    /\ \E i \in BlocksOf({"label"}), j \in BlocksOf({"label"}) :
          /\ Enclosing(i) = "f"
          /\ Enclosing(j) = "g"
          /\ instructions[i].cmd = instructions[j].cmd
          /\ LabelSymbol(i) # LabelSymbol(j)

\* command lines about static variables
StaticAlphabet ==
    {<<"push", "static", "0">>, <<"pop", "static", "0">>,
     <<"push", "static", "1">>, <<"pop", "static", "1">>}

InitStatic == InitFree(StaticAlphabet)

SpecStatic == InitStatic /\ [][Next]_vars

StaticBlocks ==
    {i \in BlocksOf({"push", "pop"}) : instructions[i].cmd[2] = "static"}

\* the symbol a push / pop static block addresses
StaticSymbol(i) ==
    IF instructions[i].cmd[1] = "push"
    THEN Tail(instructions[i].text[1])
    ELSE Tail(instructions[i].text[4])

\* C10: two references to static variables, by push or pop, use the same
\* symbol exactly when they are in the same source file and have the same
\* index - whatever was translated before them.
StaticSymbolPerUnitAndIndex ==
    \A i \in StaticBlocks, j \in StaticBlocks :
        StaticSymbol(i) = StaticSymbol(j)
           <=> /\ instructions[i].file = instructions[j].file
               /\ Atoi(instructions[i].cmd[3]).val = Atoi(instructions[j].cmd[3]).val

StaticInTwoUnits ==
    /\ status = "saved"
    /\ \E i \in StaticBlocks, j \in StaticBlocks, k \in StaticBlocks :
          /\ instructions[i].file # instructions[j].file
          /\ instructions[i].cmd = <<"push", "static", "0">>
          /\ instructions[j].cmd = <<"pop", "static", "0">>
          /\ StaticSymbol(i) # StaticSymbol(j)
          /\ instructions[k].file = instructions[j].file
          /\ instructions[k].cmd = <<"push", "static", "0">>
          /\ StaticSymbol(k) = StaticSymbol(j)

-----------------------------------------------------------------------------
(* function entries, label symbols and call counters *)

\* the symbol a function block defines as the function's entry
EntrySymbol(i) == LabelName(instructions[i].text[1])

\* C11: two function commands of the same surface name in two different
\* source units produce two different entry symbols, so that no function
\* entry label is defined twice in the output.
FunctionEntriesDistinct ==
    \A i \in BlocksOf({"function"}), j \in BlocksOf({"function"}) :
        (/\ instructions[i].file # instructions[j].file
         /\ instructions[i].cmd[2] = instructions[j].cmd[2])
           => EntrySymbol(i) # EntrySymbol(j)

\* C12: the symbol of label L, goto L and if-goto L inside function F is the
\* entry symbol that the function F command emitted, then "$", then L.
LabelSymbolsAreQualified ==
    /\ \A i \in BlocksOf({"label"}) :
          FunctionsBefore(i) # {} =>
             LabelSymbol(i) = EntrySymbol(Max(FunctionsBefore(i)))
                                 \o "$" \o instructions[i].cmd[2]
    /\ \A i \in BlocksOf({"goto", "if-goto"}) :
          FunctionsBefore(i) # {} =>
             JumpTarget(i) = EntrySymbol(Max(FunctionsBefore(i)))
                                \o "$" \o instructions[i].cmd[2]

\* the calling function of a call site: the name funcStack.current holds when
\* the block is translated, which is the name in the last function command
\* translated before it ("Sys.init" before the first)
CallerOf(i) ==
    LET before == {j \in BlocksOf({"function"}) : j < i}
    IN  IF before = {} THEN "Sys.init" ELSE instructions[Max(before)].cmd[2]

\* the call sites translated before call site i inside the same caller
EarlierCallsOf(i) ==
    {j \in BlocksOf({"call"}) : j < i /\ CallerOf(j) = CallerOf(i)}

\* C13: the return symbol of a call site is <programName>.<caller>$ret<N>
\* with N the number of call sites translated before it inside the same
\* calling function, whatever was called in other functions.
ReturnCounterIsPerCaller ==
    \A i \in BlocksOf({"call"}) :
        GeneratedLabel(i) =
           "(" \o getFolderName \o "." \o CallerOf(i) \o "$ret"
               \o Itoa(Cardinality(EarlierCallsOf(i))) \o ")"

-----------------------------------------------------------------------------
(* commands the translator has to reject *)

\* push and pop lines with good and bad segments and pointer indices
SegmentAlphabet ==
    {<<"push", "pointer", "0">>, <<"pop", "pointer", "1">>,
     <<"push", "pointer", "2">>, <<"pop", "pointer", "2">>,
     <<"push", "bogus", "0">>, <<"pop", "bogus", "0">>,
     <<"push", "constant", "1">>}

InitSegments == InitFree(SegmentAlphabet)

SpecSegments == InitSegments /\ [][Next]_vars

\* C14: push pointer i and pop pointer i with i outside {0, 1} abort the
\* translation, so that no block of the output is the translation of one.
PointerIndexIsChecked ==
    \A i \in BlocksOf({"push", "pop"}) :
        instructions[i].cmd[2] = "pointer"
           => Atoi(instructions[i].cmd[3]).val \in {0, 1}

\* the cases of the switch on the segment in handlePush
KnownSegments ==
    {"constant", "local", "argument", "static", "this", "that", "pointer", "temp"}

\* C15: a push or pop of a segment that is not one of the eight known ones
\* aborts the translation, so that no block of the output is the
\* translation of one.
UnknownSegmentIsRejected ==
    \A i \in BlocksOf({"push", "pop"}) :
        instructions[i].cmd[2] \in KnownSegments

\* command lines that need an enclosing function
ContextAlphabet ==
    {<<"function", "f", "0">>, <<"label", "L">>, <<"goto", "L">>,
     <<"if-goto", "L">>, <<"return">>}

InitContext == InitFree(ContextAlphabet)

SpecContext == InitContext /\ [][Next]_vars

\* C16: a label, goto, if-goto or return before the first function command
\* of its source unit aborts the translation, so that every block of the
\* output that translates one has a function command before it in its unit.
ContextCommandsAreInsideFunction ==
    \A i \in BlocksOf({"label", "goto", "if-goto", "return"}) :
        FunctionsBefore(i) # {}

\* command lines with too few, too many and the right number of tokens
TokenAlphabet ==
    {<<"push", "local">>, <<"function", "f">>, <<"goto">>, <<"add", "x">>,
     <<"push", "local", "1", "2">>, <<"return", "5">>,
     <<"push", "local", "1">>, <<"return">>}

InitTokens == InitFree(TokenAlphabet)

SpecTokens == InitTokens /\ [][Next]_vars

\* the number of tokens of a command line of the given opcode: the opcode
\* and the operands parseCommand reads for it
Arity(op) ==
    CASE op \in {"push", "pop", "function", "call"} -> 3
      [] op \in {"label", "goto", "if-goto"} -> 2
      [] OTHER -> 1

\* C17: a command line with the wrong number of tokens for its opcode aborts
\* the translation with a returned error (not a run-time panic), so that no
\* block of the output is the translation of one.
MalformedCommandIsRejected ==
    /\ status # "panic"
    /\ \A i \in DOMAIN instructions :
          instructions[i].cmd # <<>>
             => Len(instructions[i].cmd) = Arity(instructions[i].cmd[1])

-----------------------------------------------------------------------------
(* errors stop the translation *)

\* a line that translates, and lines whose translation returns an error: an
\* invalid operation, a non-numeric push index, a non-numeric function count
\* and a non-numeric call count
GoodLines == {<<"add">>}

BadLines ==
    {<<"bogus">>, <<"push", "local", "x">>, <<"function", "f", "x">>,
     <<"call", "f", "x">>}

\* bound on the lines of one source file
MaxUnitLines == 2

UnitTexts == UNION {[1..k -> GoodLines \cup BadLines] : k \in 0..MaxUnitLines}

\* folder Prog with the files Main.vm and Sys.vm of the given lines, with or
\* without the three flags
InitFailFast ==
    /\ Fresh
    /\ pathToTranslate = "Prog"
    /\ \E b \in BOOLEAN :
          /\ shouldBootstrap = b
          /\ shouldSetStackPointer = b
          /\ shouldEndWithLoop = b
    /\ \E main \in UnitTexts, sys \in UnitTexts :
          scen = [kind |-> "units", files |-> <<"Main.vm", "Sys.vm">>,
                  units |-> ("Prog/Main.vm" :> main @@ "Prog/Sys.vm" :> sys),
                  ram |-> <<>>]

SpecFailFast == InitFailFast /\ [][Next]_vars

\* the lines of all files, in the order loadFolder reads them
AllInput == scen.units["Prog/Main.vm"] \o scen.units["Prog/Sys.vm"]

\* the lines of the files translated so far, in the order of their blocks
Translated ==
    LET blocks == SelectSeq(instructions, LAMBDA b : b.file # "")
    IN  [k \in DOMAIN blocks |-> blocks[k].cmd]

\* positions of the input whose translation returns an error
BadPositions == {k \in DOMAIN AllInput : AllInput[k] \in BadLines}

\* C18: the lines translated are always the lines before the first one whose
\* translation returns an error (no later line of any unit is translated),
\* translation aborts at that line, and the output is saved only when no
\* line of any unit returns an error, and then holds every line.
FailFastNoPartialOutput ==
    /\ Translated = SubSeq(AllInput, 1, Len(Translated))
    /\ BadPositions # {} => Len(Translated) < Min(BadPositions)
    /\ status = "fatal" =>
          /\ BadPositions # {}
          /\ Len(Translated) = Min(BadPositions) - 1
    /\ status = "saved" =>
          /\ BadPositions = {}
          /\ Translated = AllInput

AbortedInSecondUnit ==
    /\ status = "fatal"
    /\ pending = <<"Prog/Sys.vm">>
    /\ shouldBootstrap
    /\ Translated = <<<<"add">>, <<"add">>>>
    /\ AllInput = <<<<"add">>, <<"add">>, <<"call", "f", "x">>, <<"add">>>>

-----------------------------------------------------------------------------
(* what loadFolder puts around the units' code *)

\* command lines that use the shared routines
SharedAlphabet ==
    {<<"call", "f", "0">>, <<"return">>, <<"eq">>, <<"gt">>, <<"lt">>}

InitShared == InitFree(SharedAlphabet)

SpecShared == InitShared /\ [][Next]_vars

\* the places <<block, line>> of the output that hold the given line
PlacesOf(line) ==
    UNION {{<<i, k>> : k \in {n \in DOMAIN instructions[i].text :
                                 instructions[i].text[n] = line}} :
           i \in DOMAIN instructions}

\* the blocks that are the code of the source units
UnitBlocks == {i \in DOMAIN instructions : instructions[i].file # ""}

\* C19: in the saved output of a folder each of the labels (RETURN), (CALL),
\* (LT), (GT), (EQ) stands at exactly one place, the first line of a block
\* that comes before every block of every source unit.
SharedRoutinesOnce ==
    (status = "saved" /\ Ext(pathToTranslate) = "") =>
        \A l \in {"(RETURN)", "(CALL)", "(LT)", "(GT)", "(EQ)"} :
            /\ Cardinality(PlacesOf(l)) = 1
            /\ \A p \in PlacesOf(l) :
                  /\ p[2] = 1
                  /\ \A i \in UnitBlocks : p[1] < i

SharedRoutinesBeforeTwoUnits ==
    /\ status = "saved"
    /\ Ext(pathToTranslate) = ""
    /\ PlacesOf("(CALL)") # {}
    /\ \E i \in UnitBlocks, j \in UnitBlocks, k \in UnitBlocks :
          /\ instructions[i].file = "Prog/Main.vm"
          /\ instructions[i].cmd = <<"call", "f", "0">>
          /\ instructions[j].file = "Prog/Sys.vm"
          /\ instructions[j].cmd = <<"return">>
          /\ instructions[k].cmd = <<"eq">>

\* folder Prog with the one file Sys.vm, translated with -bootstrap and with
\* or without the other two flags, and run from a memory whose SP cell holds
\* what the machine or an earlier program left there
BootProgram ==
    <<<<"function", "Sys.init", "0">>, <<"push", "constant", "7">>>> \o EndLoop

InitBoot ==
    /\ Fresh
    /\ pathToTranslate = "Prog"
    /\ shouldBootstrap = TRUE
    /\ shouldSetStackPointer \in BOOLEAN
    /\ shouldEndWithLoop \in BOOLEAN
    /\ \E sp \in {0} \cup StackBases :
          scen = [kind |-> "boot", files |-> <<"Sys.vm">>,
                  units |-> ("Prog/Sys.vm" :> BootProgram),
                  ram |-> RamOf(<<<<0, sp>>>>)]

SpecBoot == InitBoot /\ [][NextRun]_vars

\* C20: in a program translated with the bootstrap call, SP is 256 when the
\* call sequence (the code at START) begins, and the frame of Sys.init is
\* the five cells from 256 on.
BootstrapFrameAt256 ==
    /\ AtLabel("START") => SP = 256
    /\ AtLabel("Prog.Sys.init") =>
          /\ ARG = 256
          /\ LCL = 261
          /\ SP = 261

\* C20 (amended): in a program translated with the bootstrap call and with
\* the setStackPointer flag, SP is 256 when the call sequence (the code at
\* START) begins, whatever the memory held before, and the frame of
\* Sys.init is the five cells from 256 on.
BootstrapFrameAt256WithFlag ==
    shouldSetStackPointer =>
        /\ AtLabel("START") => SP = 256
        /\ AtLabel("Prog.Sys.init") =>
              /\ ARG = 256
              /\ LCL = 261
              /\ SP = 261
              /\ Peek(RAM, 256) = symtab["Prog.Sys.init$ret0"]

BootstrapCalledFromStaleSP ==
    /\ AtLabel("Prog.Sys.init")
    /\ shouldBootstrap
    /\ shouldSetStackPointer
    /\ Peek(scen.ram, 0) = 2000
    /\ SP = 261

\* push and pop lines with negative and non-negative indices
IndexAlphabet ==
    {<<"push", "constant", "-1">>, <<"pop", "local", "-2">>,
     <<"push", "constant", "1">>, <<"pop", "local", "0">>,
     <<"push", "temp", "-6">>}

InitIndex == InitFree(IndexAlphabet)

SpecIndex == InitIndex /\ [][Next]_vars

\* C21: a push or pop whose index token is a negative integer is never
\* translated: every push / pop block of the output is the translation of a
\* command with a non-negative index.
IndexIsNonNegative ==
    \A i \in BlocksOf({"push", "pop"}) :
        /\ Atoi(instructions[i].cmd[3]).ok
        /\ Atoi(instructions[i].cmd[3]).val >= 0

-----------------------------------------------------------------------------
(* frames: the CALL routine, the RETURN routine and function entries *)

\* C22: when call f n and the CALL routine have run from stack pointer S
\* (scen.sp + scen.n: the n arguments are pushed), control is at f's entry,
\* the cells S .. S+4 hold the call site's return address and the caller's
\* LCL, ARG, THIS, THAT, and ARG = S - n, LCL = SP = S + 5.  The CALL routine
\* ends right before (LT); its last instruction jumps to f's entry.
CallBuildsFrame ==
    LET S == scen.sp + scen.n
    IN  /\ AtLabel("Prog.f") =>
              /\ Peek(RAM, S) = symtab["Prog.Sys.init$ret0"]
              /\ <<Peek(RAM, S + 1), Peek(RAM, S + 2),
                   Peek(RAM, S + 3), Peek(RAM, S + 4)>> = scen.bp
              /\ ARG = S - scen.n
              /\ LCL = S + 5
              /\ SP = S + 5
        /\ (status = "running" /\ pc = symtab["LT"] - 1) =>
              /\ Fetch = "0;JMP"
              /\ A = symtab["Prog.f"]

CalledWithTwoArguments ==
    /\ AtLabel("Prog.f")
    /\ scen.n = 2
    /\ scen.sp = 256
    /\ scen.bp = <<300, 290, 3000, 3010>>
    /\ ARG = 256
    /\ LCL = 263
    /\ Peek(RAM, 259) = 300

\* C23: the first seven instructions of the RETURN routine load the saved
\* return address into R13; from then to the routine's end (it ends right
\* before (CALL)), so while the return value is stored at ARG and the base
\* pointers are restored, R13 holds the address of the call site's return
\* label, and the routine's last instruction jumps there - for n = 0 as well.
ReturnAddressReadFirst ==
    LET ret == symtab["Prog.Sys.init$ret0"]
    IN  /\ (/\ status = "running"
            /\ pc >= symtab["RETURN"] + 7
            /\ pc < symtab["CALL"]) => Peek(RAM, 13) = ret
        /\ (status = "running" /\ pc = symtab["CALL"] - 1) =>
              /\ Fetch = "0;JMP"
              /\ A = ret

\* f, called with no argument, returns 9: the slot that held the return
\* address now holds 9 and the jump still goes to the return label
ReturnOverwritesAddressSlot ==
    /\ status = "running"
    /\ pc = symtab["CALL"] - 1
    /\ scen.n = 0
    /\ scen.ret
    /\ Peek(RAM, scen.sp) = 9
    /\ symtab["Prog.Sys.init$ret0"] # 9
    /\ A = symtab["Prog.Sys.init$ret0"]

RECURSIVE PokeAll(_, _)
\* the memory after writing the given <<address, word>> pairs in turn
PokeAll(mem, pairs) ==
    IF pairs = <<>> THEN mem
    ELSE PokeAll(Poke(mem, Head(pairs)[1], Head(pairs)[2]), Tail(pairs))

\* f (k locals) is called with no argument; BODY marks the end of the block
\* of function f k
LocalsProgram(k) ==
    <<<<"call", "f", "0">>>> \o EndLoop
       \o <<<<"function", "f", Itoa(k)>>, <<"label", "BODY">>, <<"goto", "BODY">>>>

\* stale values lie in the cells above the stack, where the frame and the
\* locals will be
InitLocals ==
    \E sp \in StackBases, bp \in BasePointers, k \in 0..MaxLocals :
        InitRun([kind |-> "locals", files |-> <<"Main.vm">>,
                 units |-> OneFile(LocalsProgram(k)),
                 ram |-> RamOf(<<<<0, sp>>, <<1, bp[1]>>, <<2, bp[2]>>,
                                 <<3, bp[3]>>, <<4, bp[4]>>>>
                               \o [i \in 1..12 |-> <<sp + i - 1, 7000 + i>>]),
                 sp |-> sp, bp |-> bp, k |-> k])

SpecLocals == InitLocals /\ [][NextRun]_vars

\* the memory as the call site and the CALL routine leave it at f's entry
EntryRam ==
    PokeAll(scen.ram,
            <<<<13, symtab["Prog.f"]>>, <<14, 0>>,
              <<scen.sp, symtab["Prog.Sys.init$ret0"]>>,
              <<scen.sp + 1, scen.bp[1]>>, <<scen.sp + 2, scen.bp[2]>>,
              <<scen.sp + 3, scen.bp[3]>>, <<scen.sp + 4, scen.bp[4]>>,
              <<2, scen.sp>>, <<1, scen.sp + 5>>, <<0, scen.sp + 5>>>>)

\* C24: the block of function f k is entered with SP = LCL; when it ends
\* the cells LCL .. LCL+k-1 hold 0, SP = LCL + k and every other cell of the
\* memory is as it was at the entry; the block is the entry label alone for
\* k = 0 and the label and five instructions for each local otherwise.
FunctionZeroesLocals ==
    /\ AtLabel("Prog.f") => (RAM = EntryRam /\ SP = LCL)
    /\ AtLabel("f$BODY") =>
          RAM = PokeAll(EntryRam,
                        [i \in 1..scen.k |-> <<scen.sp + 5 + i - 1, 0>>]
                           \o <<<<0, scen.sp + 5 + scen.k>>>>)
    /\ \A i \in BlocksOf({"function"}) :
          Len(instructions[i].text) = 1 + 5 * Atoi(instructions[i].cmd[3]).val

TwoLocalsZeroed ==
    /\ AtLabel("f$BODY")
    /\ scen.k = 2
    /\ scen.sp = 256
    /\ Peek(scen.ram, 261) = 7006
    /\ Peek(RAM, 261) = 0
    /\ Peek(RAM, 262) = 0
    /\ Peek(RAM, 263) = 7008
    /\ SP = 263

-----------------------------------------------------------------------------
(* the current-function context *)

\* command lines of every kind
ContextUseAlphabet ==
    {<<"function", "f", "0">>, <<"function", "g", "0">>, <<"return">>,
     <<"call", "g", "0">>, <<"label", "L">>, <<"goto", "L">>,
     <<"if-goto", "L">>, <<"push", "constant", "1">>, <<"add">>}

InitContextUse == InitFree(ContextUseAlphabet)

SpecContextUse == InitContextUse /\ [][Next]_vars

\* the step appends the block of a function command
FunctionTranslated ==
    /\ Len(instructions') = Len(instructions) + 1
    /\ instructions'[Len(instructions')].cmd # <<>>
    /\ instructions'[Len(instructions')].cmd[1] = "function"

\* s begins with prefix
HasPrefix(s, prefix) ==
    Len(s) >= Len(prefix) /\ SubSeq(s, 1, Len(prefix)) = prefix

\* C25: funcStack.current changes only in a step that translates a function
\* command (no return, call, label, goto, if-goto, push, pop or arithmetic
\* command changes it), so the labels, jumps and call-site return symbols
\* of the output carry the name in the last function command translated
\* before them, returns in between or not.
CurrentChangesOnlyOnFunction ==
    /\ [][funcStack.current' # funcStack.current => FunctionTranslated]_vars
    /\ [](/\ \A i \in BlocksOf({"label"}) :
                LabelSymbol(i) = CallerOf(i) \o "$" \o instructions[i].cmd[2]
          /\ \A i \in BlocksOf({"goto", "if-goto"}) :
                JumpTarget(i) = CallerOf(i) \o "$" \o instructions[i].cmd[2]
          /\ \A i \in BlocksOf({"call"}) :
                HasPrefix(GeneratedLabel(i),
                          "(" \o getFolderName \o "." \o CallerOf(i) \o "$ret"))

SymbolsAfterReturn ==
    /\ status = "saved"
    /\ funcStack.current = "f"
    /\ \E r \in BlocksOf({"return"}), l \in BlocksOf({"label"}),
          k \in BlocksOf({"call"}) :
          /\ r < l
          /\ r < k
          /\ LabelSymbol(l) = "f$L"
          /\ GeneratedLabel(k) = "(Prog.f$ret0)"

-----------------------------------------------------------------------------
(* the location-register revision of the translator (src/unnamed/part_000):
   a location sequence puts an address into R13, then a stack sequence
   pushes from it or pops to it *)

incStackPointer_000 == <<"@SP", "M=M+1">>

decStackPointer_000 == <<"@SP", "M=M-1">>

baseLocation_000(loc) == <<"@" \o loc, "D=A", locRegister, "M=D">>

offsetLocation_000(loc, index) ==
    <<"@" \o Itoa(index), "D=A", "@" \o loc, "D=D+A", locRegister, "M=D">>

\* getFilename: the base name of os.Args[1] without its extension
getFilename_000 ==
    LET base == Base(pathToTranslate)
    IN  SubSeq(base, 1, Len(base) - Len(Ext(base)))

local_000(index) ==
    IF index = 0 THEN baseLocation_000("LCL") ELSE offsetLocation_000("LCL", index)

argument_000(index) ==
    IF index = 0 THEN baseLocation_000("ARG") ELSE offsetLocation_000("ARG", index)

\* pointer returns (string, error): [out, err]
pointer_000(index) ==
    IF index = 0 THEN [out |-> baseLocation_000("THIS"), err |-> ""]
    ELSE IF index = 1 THEN [out |-> baseLocation_000("THAT"), err |-> ""]
    ELSE [out |-> <<>>, err |-> "invalid pointer index"]

temp_000(index) ==
    IF index = 0 THEN baseLocation_000("R5") ELSE offsetLocation_000("R5", index)

static_000(index) ==
    <<"@" \o getFilename_000 \o "." \o Itoa(index), "D=A", locRegister, "M=D">>

constant_000(index) ==
    <<"@" \o Itoa(index), "D=A", valueRegister, "M=D", "D=A", locRegister, "M=D">>

byPointer_000(loc, index) ==
    IF index = 0
    THEN <<loc, "A=M", "D=A", locRegister, "M=D">>
    ELSE <<"@" \o Itoa(index), "D=A", loc, "A=M", "D=D+A", locRegister, "M=D">>

this_000(index) == byPointer_000("@THIS", index)

that_000(index) == byPointer_000("@THAT", index)

location_000(op, index) ==
    CASE op = "argument" -> [out |-> argument_000(index), err |-> ""]
      [] op = "local" -> [out |-> local_000(index), err |-> ""]
      [] op = "static" -> [out |-> static_000(index), err |-> ""]
      [] op = "constant" -> [out |-> constant_000(index), err |-> ""]
      [] op = "this" -> [out |-> this_000(index), err |-> ""]
      [] op = "that" -> [out |-> that_000(index), err |-> ""]
      [] op = "pointer" -> pointer_000(index)
      [] op = "temp" -> [out |-> temp_000(index), err |-> ""]
      [] OTHER -> [out |-> <<>>, err |-> "invalid location"]

push_000 ==
    <<locRegister, "A=M", "D=M", "@SP", "A=M", "M=D">> \o incStackPointer_000

pop_000 ==
    <<"@SP", "A=M-1", "D=M", locRegister, "A=M", "M=D">> \o decStackPointer_000

stack_000(op) ==
    IF op = "push" THEN [out |-> push_000, err |-> ""]
    ELSE IF op = "pop" THEN [out |-> pop_000, err |-> ""]
    ELSE [out |-> <<>>, err |-> "invalid stack operation"]

add_000 == <<"@SP", "AM=M-1", "D=M", "@SP", "AM=M-1", "M=D+M">> \o incStackPointer_000

sub_000 == <<"@SP", "AM=M-1", "D=M", "@SP", "AM=M-1", "M=M-D">> \o incStackPointer_000

neg_000 == <<"@SP", "AM=M-1", "M=-M">> \o incStackPointer_000

and_000 == <<"@SP", "AM=M-1", "D=M", "@SP", "AM=M-1", "M=D&M">> \o incStackPointer_000

or_000 == <<"@SP", "AM=M-1", "D=M", "@SP", "AM=M-1", "M=D|M">> \o incStackPointer_000

not_000 == <<"@SP", "AM=M-1", "M=!M">> \o incStackPointer_000

\* eq, gt and lt: the comparison in line, with labels numbered by the
\* counter of the operation (n is eqCount, gtCount or ltCount)
eq_000(n) ==
    <<"@SP", "AM=M-1", "D=M", "@SP", "AM=M-1", "D=M-D",
      "@EQ_TRUE_" \o Itoa(n), "D;JEQ",
      "@SP", "A=M", "M=0", "@EQ_END_" \o Itoa(n), "0;JMP",
      "(EQ_TRUE_" \o Itoa(n) \o ")", "@SP", "A=M", "M=-1",
      "(EQ_END_" \o Itoa(n) \o ")">> \o incStackPointer_000

gt_000(n) ==
    <<"@SP", "AM=M-1", "D=M", "@SP", "AM=M-1", "D=M-D",
      "@GT_TRUE_" \o Itoa(n), "D;JGT",
      "@SP", "A=M", "M=0", "@GT_END_" \o Itoa(n), "0;JMP",
      "(GT_TRUE_" \o Itoa(n) \o ")", "@SP", "A=M", "M=-1",
      "(GT_END_" \o Itoa(n) \o ")">> \o incStackPointer_000

lt_000(n) ==
    <<"@SP", "AM=M-1", "D=M", "@SP", "AM=M-1", "D=M-D",
      "@LT_TRUE_" \o Itoa(n), "D;JLT",
      "@SP", "A=M", "M=0", "@LT_END_" \o Itoa(n), "0;JMP",
      "(LT_TRUE_" \o Itoa(n) \o ")", "@SP", "A=M", "M=-1",
      "(LT_END_" \o Itoa(n) \o ")">> \o incStackPointer_000

\* What translating one command yields in this revision: its lines, the
\* error ("" for nil) and the three counters [eq, gt, lt] as it leaves them.
Res_000(out, err, counts) == [out |-> out, err |-> err, counts |-> counts]

operation_000(op, counts) ==
    CASE op = "add" -> Res_000(add_000, "", counts)
      [] op = "sub" -> Res_000(sub_000, "", counts)
      [] op = "neg" -> Res_000(neg_000, "", counts)
      [] op = "eq" -> Res_000(eq_000(counts.eq), "", [counts EXCEPT !.eq = @ + 1])
      [] op = "gt" -> Res_000(gt_000(counts.gt), "", [counts EXCEPT !.gt = @ + 1])
      [] op = "lt" -> Res_000(lt_000(counts.lt), "", [counts EXCEPT !.lt = @ + 1])
      [] op = "and" -> Res_000(and_000, "", counts)
      [] op = "or" -> Res_000(or_000, "", counts)
      [] op = "not" -> Res_000(not_000, "", counts)
      [] OTHER -> Res_000(<<>>, "invalid operation", counts)

\* command is the line's tokens in reverse order (Parse reverses them)
parseCommand_000(command, counts) ==
    LET first == command[1]
        num == Atoi(first)
        panic == Res_000(<<>>, "panic: index out of range", counts)
    IN  IF num.ok
        THEN IF Len(command) < 2 THEN panic
             ELSE LET setup == location_000(command[2], num.val)
                  IN  IF setup.err # "" THEN Res_000(<<>>, setup.err, counts)
                      ELSE IF Len(command) < 3 THEN panic
                      ELSE LET stackOperation == stack_000(command[3])
                           IN  IF stackOperation.err # ""
                               THEN Res_000(<<>>, stackOperation.err, counts)
                               ELSE Res_000(setup.out \o stackOperation.out, "", counts)
        ELSE operation_000(first, counts)

\* the tokens of a line in reverse order
Reverse(parts) == [i \in DOMAIN parts |-> parts[Len(parts) + 1 - i]]

RECURSIVE Parse_000(_, _, _)
\* Parser.Parse on the lines of the file: the blocks so far, and the first
\* error (log.Fatal ends the run there); the final loop closes the output
Parse_000(lines, counts, blocks) ==
    IF lines = <<>>
    THEN [blocks |-> Append(blocks,
                            Block(<<"(INFINITE_LOOP)", "@INFINITE_LOOP", "0;JMP">>)),
          err |-> "", counts |-> counts]
    ELSE LET r == parseCommand_000(Reverse(Head(lines)), counts)
         IN  IF r.err # "" THEN [blocks |-> blocks, err |-> r.err, counts |-> counts]
             ELSE Parse_000(Tail(lines), r.counts,
                            Append(blocks, [file |-> pathToTranslate,
                                            cmd |-> Head(lines), text |-> r.out]))

\* main() of this revision: the checks on the file name, Parse, and the
\* output file written
Main_000 ==
    /\ status = "start"
    /\ LET fatal == \/ pathToTranslate = ""
                    \/ IsLower(Head(pathToTranslate))
                    \/ Ext(pathToTranslate) # ".vm"
           r == Parse_000(scen.units[pathToTranslate],
                          [eq |-> eqCount, gt |-> gtCount, lt |-> ltCount], <<>>)
       IN  IF fatal
           THEN /\ status' = "fatal"
                /\ UNCHANGED <<instructions, eqCount, gtCount, ltCount>>
           ELSE /\ status' = IF r.err = "" THEN "saved"
                             ELSE IF r.err = "panic: index out of range" THEN "panic"
                             ELSE "fatal"
                /\ instructions' = IF r.err = "" THEN r.blocks ELSE instructions
                /\ eqCount' = r.counts.eq
                /\ gtCount' = r.counts.gt
                /\ ltCount' = r.counts.lt
    /\ UNCHANGED <<funcStack, currentFile, pathToTranslate, shouldBootstrap,
                   shouldSetStackPointer, shouldEndWithLoop, pending, lineNo>>
    /\ UNCHANGED mvars

Next_000 == Main_000 \/ Load \/ ExecA \/ ExecC \/ ExecJ

\* the file Main.vm holding one push or pop of local k or argument k,
\* translated by this revision and run from a memory with a working stack
\* and distinct values in every cell of the segments
InitLocation ==
    /\ Fresh
    /\ pathToTranslate = "Main.vm"
    /\ shouldBootstrap = FALSE
    /\ shouldSetStackPointer = FALSE
    /\ shouldEndWithLoop = FALSE
    /\ \E sp \in StackBases, op \in {"push", "pop"},
          segment \in {"local", "argument"}, index \in 0..MaxIndex :
          scen = [kind |-> "location", files |-> <<>>,
                  units |-> ("Main.vm" :> <<<<op, segment, Itoa(index)>>>>),
                  ram |-> RoundTripRam(sp, 3000, 3010),
                  sp |-> sp, op |-> op, segment |-> segment, index |-> index]

SpecLocation == InitLocation /\ [][Next_000]_vars

\* C26: when the block of push/pop local k or argument k has run (control
\* is at the final loop), R13 holds the base pointer's value plus k; a push
\* has pushed the word at that address, a pop has stored the popped word
\* there.
LocationIsBasePlusOffset ==
    AtLabel("INFINITE_LOOP") =>
        LET base == IF scen.segment = "local" THEN Peek(scen.ram, 1)
                    ELSE Peek(scen.ram, 2)
            addr == base + scen.index
        IN  /\ Peek(RAM, 13) = addr
            /\ scen.op = "push" =>
                  /\ SP = scen.sp + 1
                  /\ Peek(RAM, scen.sp) = Peek(scen.ram, addr)
            /\ scen.op = "pop" =>
                  /\ SP = scen.sp - 1
                  /\ Peek(RAM, addr) = Peek(scen.ram, scen.sp - 1)

-----------------------------------------------------------------------------
(* shared routines in every mode, comparisons, stack effect of push and pop *)

\* C27: in the saved output of a single file as of a folder, every shared
\* routine the code jumps to (@CALL, @RETURN, @EQ, @GT, @LT) is defined as a
\* label of that output.
SharedSymbolsAreDefined ==
    status = "saved" =>
        \A s \in {"CALL", "RETURN", "EQ", "GT", "LT"} :
            PlacesOf("@" \o s) # {} => PlacesOf("(" \o s \o ")") # {}

\* C28: for all 16-bit words x (second from top) and y (top), read as
\* two's-complement numbers, gt leaves true (all bits set) exactly when
\* x > y and lt exactly when x < y, and false (0) otherwise.
SignedComparisonIsExact ==
    AtLabel("Sys.init$END") =>
        LET op == scen.ops[1][1]
            result == Peek(RAM, scen.sp)
        IN  /\ op = "gt" =>
                  result = IF Signed(scen.x) > Signed(scen.y) THEN 2^16 - 1 ELSE 0
            /\ op = "lt" =>
                  result = IF Signed(scen.x) < Signed(scen.y) THEN 2^16 - 1 ELSE 0

\* one push or pop of any of the eight segments, run on a working stack
InitStackEffect ==
    \E sp \in StackBases, op \in {"push", "pop"}, segment \in KnownSegments,
       index \in 0..MaxIndex :
        InitRun([kind |-> "stackeffect", files |-> <<"Main.vm">>,
                 units |-> OneFile(<<<<op, segment, Itoa(index)>>>> \o EndLoop),
                 ram |-> RoundTripRam(sp, 3000, 3010),
                 sp |-> sp, op |-> op, segment |-> segment, index |-> index])

SpecStackEffect == InitStackEffect /\ [][NextRun]_vars

\* C29: the block of every push / pop command that is translated holds at
\* least one instruction, and running it moves SP by exactly +1 for a push
\* and exactly -1 for a pop, for each of the eight segments.
PushPopMovesStackPointer ==
    /\ \A i \in BlocksOf({"push", "pop"}) :
          \E n \in DOMAIN instructions[i].text :
              IsInstruction(instructions[i].text[n])
    /\ AtLabel("Sys.init$END") =>
          SP = IF scen.op = "push" THEN scen.sp + 1 ELSE scen.sp - 1


-----------------------------------------------------------------------------
(* the function-stack revision of the translator (src/unnamed/part_001):    *)
(* funcStack is [items, returnCounter]; only its function, call and return  *)
(* commands and the labels are translated here                              *)

\* Stack.Push
Push_001(s, item) == [s EXCEPT !.items = Append(@, item)]

\* Stack.Pop: s.items[:len(s.items)-1], a run-time panic on an empty slice
Pop_001(s) ==
    IF s.items = <<>>
    THEN [stack |-> s, err |-> "panic: slice bounds out of range"]
    ELSE [stack |-> [s EXCEPT !.items = SubSeq(@, 1, Len(@) - 1)], err |-> ""]

\* Stack.Peek: s.items[len(s.items)-1], a run-time panic on an empty slice
Peek_001(s) ==
    IF s.items = <<>>
    THEN [item |-> "", err |-> "panic: index out of range"]
    ELSE [item |-> s.items[Len(s.items)], err |-> ""]

getFolderName_001 == Base(pathToTranslate)

\* What translating one command yields in this revision: its lines, the
\* error ("" for nil) and funcStack as it leaves it.
Res_001(out, err, stack) == [out |-> out, err |-> err, funcStack |-> stack]

RECURSIVE InitLocals_001(_)
\* the loop of function(): one push of 0 per local variable
InitLocals_001(numVars) ==
    IF numVars <= 0 THEN <<>>
    ELSE <<"@SP", "A=M", "M=0", "@SP", "M=M+1">> \o InitLocals_001(numVars - 1)

function_001(name, nVars, stack) ==
    LET numVars == Atoi(nVars)
    IN  IF ~numVars.ok
        THEN Res_001(<<>>, "invalid vars for function definition", stack)
        ELSE Res_001(<<"(" \o getFolderName_001 \o "." \o name \o ")">>
                        \o InitLocals_001(numVars.val),
                     "", Push_001(stack, name))

callFunction_001(name, nArgs, stack) ==
    LET numArgs == Atoi(nArgs)
        callingFuncName == Peek_001(stack)
        returnLabel == getFolderName_001 \o "." \o callingFuncName.item \o "$ret"
                           \o Itoa(stack.returnCounter)
    IN  IF ~numArgs.ok THEN Res_001(<<>>, "invalid args to function", stack)
        ELSE IF callingFuncName.err # "" THEN Res_001(<<>>, callingFuncName.err, stack)
        ELSE Res_001(<<"@" \o getFolderName_001 \o "." \o name, "D=A", "@R13", "M=D",
                       "@" \o Itoa(numArgs.val), "D=A", "@R14", "M=D",
                       "@" \o returnLabel, "D=A",
                       "@CALL", "0;JMP",
                       "(" \o returnLabel \o ")">>,
                     "", [stack EXCEPT !.returnCounter = @ + 1])

returnFromFunction_001(stack) ==
    LET popped == Pop_001(stack)
    IN  IF popped.err # "" THEN Res_001(<<>>, popped.err, stack)
        ELSE Res_001(<<"@RETURN", "0;JMP">>, "", popped.stack)

gotoLabel_001(l) == <<"@" \o l, "0;JMP">>

ifGoto_001(l) == <<"@SP", "AM=M-1", "D=M", "@" \o l, "D;JNE">>

label_001(l) == <<"(" \o l \o ")">>

\* the first switch of parseCommand; command[1] and command[2] of Go are
\* command[2] and command[3] here, and a missing token is a run-time panic
parseCommand_001(command, stack) ==
    LET first == command[1]
        panic == Res_001(<<>>, "panic: index out of range", stack)
    IN  CASE first = "function" ->
                 IF Len(command) < 3 THEN panic
                 ELSE function_001(command[2], command[3], stack)
          [] first = "call" ->
                 IF Len(command) < 3 THEN panic
                 ELSE callFunction_001(command[2], command[3], stack)
          [] first = "return" -> returnFromFunction_001(stack)
          [] first = "goto" ->
                 IF Len(command) < 2 THEN panic
                 ELSE Res_001(gotoLabel_001(command[2]), "", stack)
          [] first = "if-goto" ->
                 IF Len(command) < 2 THEN panic
                 ELSE Res_001(ifGoto_001(command[2]), "", stack)
          [] first = "label" ->
                 IF Len(command) < 2 THEN panic
                 ELSE Res_001(label_001(command[2]), "", stack)

\* main() and parseFile() of this revision on a single file, up to the
\* scanner loop of Parser.Parse
OpenFile_001 ==
    /\ status = "start"
    /\ LET fatal == \/ pathToTranslate = ""
                    \/ Ext(pathToTranslate) # ".vm"
                    \/ IsLower(Head(pathToTranslate))
       IN  /\ status' = IF fatal THEN "fatal" ELSE "parsing"
           /\ currentFile' = IF fatal THEN currentFile ELSE Base(pathToTranslate)
           /\ pending' = IF fatal THEN pending ELSE <<pathToTranslate>>
           /\ instructions' = IF fatal THEN instructions ELSE <<Block(<<"(START)">>)>>
    /\ lineNo' = 0
    /\ UNCHANGED <<funcStack, eqCount, gtCount, ltCount, pathToTranslate,
                   shouldBootstrap, shouldSetStackPointer, shouldEndWithLoop>>
    /\ UNCHANGED mvars

\* one iteration of the loop of Parser.Parse: log.Fatal on an error, the
\* end of the process on a run-time panic, else the block is appended
ParseLine_001 ==
    /\ status = "parsing"
    /\ \E line \in InputLines :
          LET r == parseCommand_001(line, funcStack)
          IN  /\ status' = IF r.err = "" THEN "parsing"
                            ELSE IF HasPrefix(r.err, "panic") THEN "panic"
                            ELSE "fatal"
              /\ instructions' =
                    IF r.err # "" THEN instructions
                    ELSE Append(instructions,
                                [file |-> Head(pending), cmd |-> line,
                                 text |-> r.out])
              /\ funcStack' = r.funcStack
    /\ lineNo' = lineNo + 1
    /\ UNCHANGED <<eqCount, gtCount, ltCount, currentFile, pathToTranslate,
                   shouldBootstrap, shouldSetStackPointer, shouldEndWithLoop, pending>>
    /\ UNCHANGED mvars

\* the scanner is exhausted: Parse returns and main() saves the output (the
\* routines and start instructions Parse puts around the blocks hold no
\* return label and are left out)
CloseFile_001 ==
    /\ status = "parsing"
    /\ AtEOF
    /\ status' = "saved"
    /\ pending' = Tail(pending)
    /\ UNCHANGED <<funcStack, eqCount, gtCount, ltCount, currentFile, pathToTranslate,
                   shouldBootstrap, shouldSetStackPointer, shouldEndWithLoop,
                   lineNo, instructions>>
    /\ UNCHANGED mvars

Next_001 == OpenFile_001 \/ ParseLine_001 \/ CloseFile_001

\* function, call and return commands in any order
FunctionStackAlphabet ==
    {<<"function", "f", "0">>, <<"function", "g", "0">>,
     <<"call", "g", "0">>, <<"return">>}

\* this revision on any sequence of at most MaxLines lines of the alphabet
\* in the file Main.vm
InitFunctionStack ==
    /\ eqCount = 0 /\ gtCount = 0 /\ ltCount = 0
    /\ currentFile = "" /\ pending = <<>> /\ lineNo = 0
    /\ instructions = <<>> /\ status = "start"
    /\ rom = <<>> /\ symtab = <<>> /\ pc = 0 /\ A = 0 /\ D = 0 /\ RAM = <<>>
    /\ funcStack = [items |-> <<"Sys.init">>, returnCounter |-> 0]
    /\ pathToTranslate = "Main.vm"
    /\ shouldBootstrap \in BOOLEAN
    /\ shouldSetStackPointer = FALSE
    /\ shouldEndWithLoop \in BOOLEAN
    /\ scen = [kind |-> "free", files |-> <<>>, alphabet |-> FunctionStackAlphabet]

SpecFunctionStack == InitFunctionStack /\ [][Next_001]_vars

\* C30: in the function-stack revision no sequence of function / call /
\* return commands applies Peek or Pop to an empty stack, and the return
\* label of every call site carries the name of the most recent function
\* command, also when a function body holds more than one return.
CallerIsMostRecentFunction ==
    /\ status # "panic"
    /\ \A i \in BlocksOf({"call"}) :
          {j \in BlocksOf({"function"}) : j < i} # {} =>
              HasPrefix(GeneratedLabel(i),
                        "(" \o getFolderName_001 \o "." \o CallerOf(i) \o "$ret")

=============================================================================
